---- MODULE Spec2Model ----
(***************************************************************************)
(* Verification model of the texture synthesis pipeline of the `pattern`   *)
(* repository (Next.js / three.js).  The module holds several              *)
(* specifications over one set of variables, one per part of the program:  *)
(*                                                                         *)
(*   Spec        the 3D viewer's texture-update effect                     *)
(*               (components/TextureCanvas.tsx, Texture3DViewer) driving   *)
(*               createTextureFromConfig (utils/textureRenderer.ts)        *)
(*   SpecAdjust  applyAdjustments on one pixel (utils/textureRenderer.ts)  *)
(*   SpecRender  one call of createTextureCanvas with its stencil and      *)
(*               material loads (utils/textureRenderer.ts)                 *)
(*   SpecNormal  one call of createNormalMap on a small heightfield        *)
(*   SpecMask    the pattern mask of the earlier createTextureCanvas       *)
(*               (src/unnamed/part_001)                                    *)
(*   SpecPreview the 2D preview: the TextureCanvas effect and the          *)
(*               generateTexture calls it starts on one shared canvas      *)
(*               (utils/textureGenerator.ts)                               *)
(*   SpecEditor  the pattern fields of ControlPanel and the pattern        *)
(*               selection of app/page.tsx                                 *)
(*   SpecRenderUnvalidated  createTextureCanvas with pattern settings      *)
(*               nobody validated                                          *)
(*   SpecJob     two calls of createTextureFromConfig with their asset     *)
(*               awaits, raster stages and noise                           *)
(*   SpecAdjustContrast  applyAdjustments over the contrast domain         *)
(*   SpecAdjustHue  applyAdjustments under hue rotations                   *)
(*   SpecTiles   the stencil tile loop of a builder when a draw throws     *)
(*   SpecStore   the configuration objects of app/page.tsx under edits,    *)
(*               with pipeline calls in flight                             *)
(*   SpecHeight  createDisplacementMap's raster before the noise           *)
(*   SpecLive    Spec with the promise reactions scheduled                 *)
(*   SpecRegions the getImageData / putImageData rectangles of the tile    *)
(*               loops of createDisplacementMap and createRoughnessMap     *)
(*                                                                         *)
(* A specification leaves the variables of the other parts at their idle   *)
(* values.                                                                 *)
(***************************************************************************)
EXTENDS Integers, Sequences, FiniteSets, TLC

VARIABLES
  \* ---- 3D viewer (Texture3DViewer) ----
  mounted,      \* the component is mounted
  meshRef,      \* meshRef.current is set (the scene effect ran)
  effectRuns,   \* number of runs of the texture-update effect so far
  jobs,         \* per effect run: the createTextureFromConfig job it started
  material,     \* the mesh material's four map slots (0 = null)
  textures,     \* every THREE texture a job created: none / live / disposed
  \* ---- Adjustment Filter (applyAdjustments) ----
  adjustments,  \* config.adjustments handed to applyAdjustments
  srcPixel,     \* the pixel of the material image before any pass
  imgPixel,     \* the pixel as stored in ImageData.data after the passes so far
  passes,       \* number of applyAdjustments passes applied
  \* ---- Color map builder (createTextureCanvas, utils/textureRenderer.ts) ----
  config,        \* the TextureConfig handed to createTextureCanvas
  renderPc,      \* where the call is: start, one of its awaits, done, rejected
  retrieval,     \* how the retrieval of the stencil ended (the environment's answer)
  patternImg,    \* `patternImg`: PatternNull or the image loadPatternSVG gave
  materialImg,   \* `materialImg`: which image loadImage resolved with
  textureCanvas, \* the 2D context of `textureCanvas`: its state and what was drawn
  error,         \* the message of the Error the call rejected with ("" if none)
  \* ---- Normal map (createNormalMap, utils/textureRenderer.ts) ----
  data,          \* red channel of the displacement canvas, indexed y*width + x
  normal,        \* `normal`: the RGBA bytes of the normal map, same indexing
  normalPc,      \* start, done or rejected
  \* ---- Pattern mask (createTextureCanvas of unnamed/part_001) ----
  stencil,       \* the pixels of patternImg, one row of StencilWidth pixels
  stencilLoaded, \* patternImg && patternImg.complete && patternImg.naturalWidth > 0
  maskRows,      \* patternSettings.rows
  maskColumns,   \* patternSettings.columns
  maskData,      \* `maskData`: the RGBA pixels of maskCanvas (<<>> before it exists)
  materialAlpha, \* alpha of each pixel of the material layer on the output canvas
  maskPc,        \* start or done
  \* ---- 2D preview (TextureCanvas effect, utils/textureGenerator.ts) ----
  previewRuns,   \* how many times the effect has run
  previewJobs,   \* the generateTexture calls: position, config and locals
  preview,       \* the 2D context of the one <canvas> all the calls draw on
  \* ---- Configuration editor (app/page.tsx, components/ControlPanel.tsx) ----
  patternSettings,\* config.patternSettings: rows, columns, width, height
  \* ---- Render job (createTextureFromConfig, utils/textureRenderer.ts) ----
  jobConfig,     \* the configuration of the job: pattern and material
  jobAnswers,    \* what each asset retrieval of a run resolves with
  jobRun,        \* how many calls of createTextureFromConfig were started
  jobCall,       \* the call in progress: position, events so far, stencils, maps
  jobOutputs,    \* per call: the four maps it returned
  \* ---- the stencil tile loop of a builder, with a draw that throws ----
  tileBuilder,   \* the builder whose loop runs
  tileGrid,      \* [rows, columns] of its configuration
  tileThrows,    \* the tiles (1..rows*columns, row by row) whose draw throws
  tilePc,        \* "start", "returned" or "rejected"
  tileDrawn,     \* the tiles whose stencil was drawn
  tileLater,     \* the steps after the loop ran (joints; noise and texture)
  \* ---- the configuration objects of the page (app/page.tsx) ----
  heap,          \* the objects created so far, by reference (1..Len(heap))
  current,       \* the reference held by the `config` state of Home
  edits,         \* number of setConfig calls so far
  calls,         \* the pipeline calls in flight, each with its config argument
  \* ---- createDisplacementMap before the noise ----
  dispConfig,    \* [rows, columns] and the joint settings of the call
  dispStencil,   \* the stencil image: one row of StencilWidth pixels
  dispLoaded,    \* the stencil loaded and passes the builder's test
  dispField,     \* the heights on the canvas (R = G = B), row by row
  dispPc,        \* "start" or "done"
  \* ---- the pixel regions of the per-tile loops ----
  regionGrid,    \* [rows, columns] of the configuration
  regionPc,      \* "start" or "done"
  regionColumns, \* per tile column: the pixel columns read and written back
  regionRows     \* per tile row: the pixel rows read and written back

viewerVars == <<mounted, meshRef, effectRuns, jobs, material, textures>>
adjustVars == <<adjustments, srcPixel, imgPixel, passes>>

renderVars == <<config, renderPc, retrieval, patternImg, materialImg, textureCanvas, error>>

normalVars == <<data, normal, normalPc>>

maskVars == <<stencil, stencilLoaded, maskRows, maskColumns, maskData, materialAlpha, maskPc>>

previewVars == <<previewRuns, previewJobs, preview>>

editorVars == <<patternSettings>>

jobVars == <<jobConfig, jobAnswers, jobRun, jobCall, jobOutputs>>

tilesVars == <<tileBuilder, tileGrid, tileThrows, tilePc, tileDrawn, tileLater>>

storeVars == <<heap, current, edits, calls>>

heightVars == <<dispConfig, dispStencil, dispLoaded, dispField, dispPc>>

regionsVars == <<regionGrid, regionPc, regionColumns, regionRows>>

vars == <<viewerVars, adjustVars, renderVars, normalVars, maskVars, previewVars, editorVars, jobVars, tilesVars, storeVars, heightVars, regionsVars>>

\* What the actions of one part leave alone: the variables of the other parts.
viewerRest == <<adjustVars, renderVars, normalVars, maskVars, previewVars, editorVars, jobVars, tilesVars, storeVars, heightVars, regionsVars>>
adjustRest == <<viewerVars, renderVars, normalVars, maskVars, previewVars, editorVars, jobVars, tilesVars, storeVars, heightVars, regionsVars>>
renderRest == <<viewerVars, adjustVars, normalVars, maskVars, previewVars, editorVars, jobVars, tilesVars, storeVars, heightVars, regionsVars>>
normalRest == <<viewerVars, adjustVars, renderVars, maskVars, previewVars, editorVars, jobVars, tilesVars, storeVars, heightVars, regionsVars>>
maskRest == <<viewerVars, adjustVars, renderVars, normalVars, previewVars, editorVars, jobVars, tilesVars, storeVars, heightVars, regionsVars>>
previewRest == <<viewerVars, adjustVars, renderVars, normalVars, maskVars, editorVars, jobVars, tilesVars, storeVars, heightVars, regionsVars>>
editorRest == <<viewerVars, adjustVars, renderVars, normalVars, maskVars, previewVars, jobVars, tilesVars, storeVars, heightVars, regionsVars>>
jobRest == <<viewerVars, adjustVars, renderVars, normalVars, maskVars, previewVars, editorVars, tilesVars, storeVars, heightVars, regionsVars>>
tilesRest == <<viewerVars, adjustVars, renderVars, normalVars, maskVars, previewVars, editorVars, jobVars, storeVars, heightVars, regionsVars>>
storeRest == <<viewerVars, adjustVars, renderVars, normalVars, maskVars, previewVars, editorVars, jobVars, tilesVars, heightVars, regionsVars>>
heightRest == <<viewerVars, adjustVars, renderVars, normalVars, maskVars, previewVars, editorVars, jobVars, tilesVars, storeVars, regionsVars>>
regionsRest == <<viewerVars, adjustVars, renderVars, normalVars, maskVars, previewVars, editorVars, jobVars, tilesVars, storeVars, heightVars>>

(***************************************************************************)
(* Bounds of the model.                                                    *)
(***************************************************************************)
\* Runs of the texture-update effect (mount run included).
MaxEffectRuns == 3
\* Successive applyAdjustments passes over one image.
MaxPasses == 2
\* Largest patternSettings.rows / patternSettings.columns of a configuration.
MaxRows == 3
MaxColumns == 3
\* Size in pixels of the heightfield the normal map is derived from.
GridWidth == 3
GridHeight == 2
\* Width in pixels of the stencil image and of one tile of the mask.
StencilWidth == 2
\* How many configurations the 2D preview receives (runs of its effect).
MaxPreviewRuns == 2

(***************************************************************************)
(*                    3D VIEWER: texture-update effect                     *)
(***************************************************************************)
JobIds == 1..MaxEffectRuns

\* The four maps createTextureFromConfig returns, in the order it builds them.
MapKinds == {"map", "displacementMap", "normalMap", "roughnessMap"}

\* Position of a job inside createTextureFromConfig and its .then/.catch.
\*   none          the effect run returned early, or has not happened
\*   canvas        awaiting createTextureCanvas (asset fetch + color raster)
\*   displacement  awaiting createDisplacementMap
\*   normal        awaiting createNormalMap
\*   roughness     awaiting createRoughnessMap
\*   resolved      promise resolved, .then callback not yet run
\*   rejected      a stage threw; .catch logged it
\*   applied       .then assigned the four maps to the material
\*   discarded     .then disposed the four maps
Stages == {"none", "canvas", "displacement", "normal", "roughness",
           "resolved", "rejected", "applied", "discarded"}

NoJob == [stage |-> "none", cancelled |-> FALSE]

\* The map a stage creates when it completes, and the stage that follows.
StageMap(stage) ==
  CASE stage = "canvas"       -> "map"
    [] stage = "displacement" -> "displacementMap"
    [] stage = "normal"       -> "normalMap"
    [] stage = "roughness"    -> "roughnessMap"

NextStage(stage) ==
  CASE stage = "canvas"       -> "displacement"
    [] stage = "displacement" -> "normal"
    [] stage = "normal"       -> "roughness"
    [] stage = "roughness"    -> "resolved"

InFlight(j) == jobs[j].stage \in {"canvas", "displacement", "normal", "roughness"}

\* The effect's cleanup closure: `cancelled = true` for the job of the run it
\* belongs to.  A run that returned early registered no cleanup.
EffectCleanup(js, r) ==
  IF r >= 1 /\ js[r].stage # "none"
    THEN [js EXCEPT ![r].cancelled = TRUE]
    ELSE js

\* `currentMaterial.X.dispose()` for every non-null slot; the slots keep their
\* references.
DisposeCurrent(tx) ==
  [t \in JobIds \X MapKinds |->
     IF material[t[2]] = t[1] THEN "disposed" ELSE tx[t]]

\* `if (cancelled || !meshRef.current)` in the .then callback.
ShouldDiscardIgnoringCancel(j) == ~meshRef

ShouldDiscard(j) == jobs[j].cancelled \/ ~meshRef

InitViewer ==
  /\ mounted = TRUE
  /\ meshRef = TRUE
  /\ effectRuns = 0
  /\ jobs = [j \in JobIds |-> NoJob]
  /\ material = [k \in MapKinds |-> 0]
  /\ textures = [t \in JobIds \X MapKinds |-> "none"]

\* One run of the texture-update effect (on mount, and whenever one of its
\* dependencies changed): React first runs the previous run's cleanup.
RunEffect(hasPattern) ==
  /\ mounted
  /\ effectRuns < MaxEffectRuns
  /\ LET r  == effectRuns + 1
         js == EffectCleanup(jobs, effectRuns)
     IN /\ effectRuns' = r
        /\ IF ~meshRef \/ ~hasPattern
             THEN /\ jobs' = js
                  /\ textures' = textures
             ELSE /\ jobs' = [js EXCEPT ![r] = [stage |-> "canvas", cancelled |-> FALSE]]
                  /\ textures' = DisposeCurrent(textures)
  /\ UNCHANGED <<mounted, meshRef, material>>
  /\ UNCHANGED viewerRest

ConfigChange == \E hasPattern \in BOOLEAN : RunEffect(hasPattern)

\* A stage of createTextureFromConfig completes: its texture exists from now on.
StageDone(j) ==
  /\ InFlight(j)
  /\ jobs' = [jobs EXCEPT ![j].stage = NextStage(jobs[j].stage)]
  /\ textures' = [textures EXCEPT ![<<j, StageMap(jobs[j].stage)>>] = "live"]
  /\ UNCHANGED <<mounted, meshRef, effectRuns, material>>
  /\ UNCHANGED viewerRest

\* A stage throws (no 2D context, material image and its fallback both fail):
\* createTextureFromConfig rejects and the effect's .catch logs the error.
StageFails(j) ==
  /\ InFlight(j)
  /\ jobs' = [jobs EXCEPT ![j].stage = "rejected"]
  /\ UNCHANGED <<mounted, meshRef, effectRuns, material, textures>>
  /\ UNCHANGED viewerRest

\* Only the color map of the job is disposed (the single-texture viewer).
DisposeColorMapOnly(tx, j) == [tx EXCEPT ![<<j, "map">>] = "disposed"]

\* textures.map.dispose(); ... textures.roughnessMap.dispose();
DisposeJob(tx, j) ==
  [t \in JobIds \X MapKinds |-> IF t[1] = j THEN "disposed" ELSE tx[t]]

\* Only material.map is assigned.
AssignColorMapOnly(m, j) == [m EXCEPT !["map"] = j]

\* material.map = textures.map; ... material.roughnessMap = textures.roughnessMap;
AssignMaps(m, j) == [k \in MapKinds |-> j]

\* The .then callback of the effect.
ThenCallback(j) ==
  /\ jobs[j].stage = "resolved"
  /\ IF ShouldDiscard(j)
       THEN /\ textures' = DisposeJob(textures, j)
            /\ jobs' = [jobs EXCEPT ![j].stage = "discarded"]
            /\ material' = material
       ELSE /\ material' = AssignMaps(material, j)
            /\ jobs' = [jobs EXCEPT ![j].stage = "applied"]
            /\ textures' = textures
  /\ UNCHANGED <<mounted, meshRef, effectRuns>>
  /\ UNCHANGED viewerRest

\* The component unmounts: React runs the last effect run's cleanup.
Unmount ==
  /\ mounted
  /\ mounted' = FALSE
  /\ jobs' = EffectCleanup(jobs, effectRuns)
  /\ UNCHANGED <<meshRef, effectRuns, material, textures>>
  /\ UNCHANGED viewerRest

NextViewer ==
  \/ ConfigChange
  \/ \E j \in JobIds : StageDone(j)
  \/ \E j \in JobIds : StageFails(j)
  \/ \E j \in JobIds : ThenCallback(j)
  \/ Unmount

(***************************************************************************)
(*                 Exact rational arithmetic for pixel maths               *)
(* JavaScript numbers are modelled as exact rationals <<n, d>>, d > 0, in  *)
(* lowest terms; a value is rounded only where the code rounds it          *)
(* (Math.round, the store into a Uint8ClampedArray).                       *)
(***************************************************************************)
Abs(x) == IF x < 0 THEN -x ELSE x

RECURSIVE Gcd(_, _)
Gcd(a, b) == IF b = 0 THEN a ELSE Gcd(b, a % b)

\* n / d in lowest terms with a positive denominator.  Dividing a non-zero
\* number by zero gives <<1, 0>> or <<-1, 0>>: JavaScript's Infinity, -Infinity.
Q(n, d) ==
  LET g == Gcd(Abs(n), Abs(d))
      s == IF d < 0 THEN -1 ELSE 1
  IN <<(s * n) \div g, (s * d) \div g>>

QInt(n) == <<n, 1>>
QAdd(a, b) == Q(a[1] * b[2] + b[1] * a[2], a[2] * b[2])
QSub(a, b) == Q(a[1] * b[2] - b[1] * a[2], a[2] * b[2])
QMul(a, b) == Q(a[1] * b[1], a[2] * b[2])
QDiv(a, b) == Q(a[1] * b[2], a[2] * b[1])
QLt(a, b) == a[1] * b[2] < b[1] * a[2]
QLe(a, b) == a[1] * b[2] <= b[1] * a[2]
QEq(a, b) == a[1] * b[2] = b[1] * a[2]
QMin(a, b) == IF QLt(b, a) THEN b ELSE a
QMax(a, b) == IF QLt(a, b) THEN b ELSE a
QAbs(a) == <<Abs(a[1]), a[2]>>
\* Math.floor
QFloor(a) == a[1] \div a[2]
\* truncation toward zero
QTrunc(a) == IF a[1] >= 0 THEN a[1] \div a[2] ELSE -((-a[1]) \div a[2])
\* the JavaScript remainder a % b: the sign of the dividend
QRem(a, b) == QSub(a, QMul(b, QInt(QTrunc(QDiv(a, b)))))
\* Math.round: the nearest integer, a tie goes up
MathRound(a) == QFloor(QAdd(a, Q(1, 2)))
\* A byte store that truncates instead of rounding.
ToUint8Truncate(a) ==
  IF a[1] <= 0 THEN 0 ELSE IF QLe(QInt(255), a) THEN 255 ELSE QFloor(a)

\* The store into a Uint8ClampedArray (ImageData.data): clamp to [0,255] and
\* round to the nearest integer, a tie goes to the even one.
ToUint8Clamp(a) ==
  LET f  == QFloor(a)
      fr == QSub(a, QInt(f))
  IN IF a[1] <= 0 THEN 0
     ELSE IF QLe(QInt(255), a) THEN 255
     ELSE IF QLt(fr, Q(1, 2)) THEN f
     ELSE IF QLt(Q(1, 2), fr) THEN f + 1
     ELSE IF f % 2 = 0 THEN f ELSE f + 1

(***************************************************************************)
(*                  ADJUSTMENT FILTER: applyAdjustments                    *)
(***************************************************************************)
\* rgbToHsv(r, g, b): the three channels are rationals in [0,255].
rgbToHsv(r0, g0, b0) ==
  LET r    == QDiv(r0, QInt(255))
      g    == QDiv(g0, QInt(255))
      b    == QDiv(b0, QInt(255))
      max  == QMax(r, QMax(g, b))
      min  == QMin(r, QMin(g, b))
      diff == QSub(max, min)
      h    == IF diff[1] = 0 THEN QInt(0)
              ELSE IF QEq(max, r) THEN QRem(QDiv(QSub(g, b), diff), QInt(6))
              ELSE IF QEq(max, g) THEN QAdd(QDiv(QSub(b, r), diff), QInt(2))
              ELSE QAdd(QDiv(QSub(r, g), diff), QInt(4))
      s    == IF max[1] = 0 THEN QInt(0) ELSE QDiv(diff, max)
  IN <<QDiv(h, QInt(6)), s, max>>

\* hsvToRgb(h, s, v): three integers (Math.round).
hsvToRgb(h, s, v) ==
  LET c == QMul(v, s)
      x == QMul(c, QSub(QInt(1),
                        QAbs(QSub(QRem(QMul(h, QInt(6)), QInt(2)), QInt(1)))))
      m == QSub(v, c)
      z == QInt(0)
      rgb == IF QLt(h, Q(1, 6)) THEN <<c, x, z>>
             ELSE IF QLt(h, Q(2, 6)) THEN <<x, c, z>>
             ELSE IF QLt(h, Q(3, 6)) THEN <<z, c, x>>
             ELSE IF QLt(h, Q(4, 6)) THEN <<z, x, c>>
             ELSE IF QLt(h, Q(5, 6)) THEN <<x, z, c>>
             ELSE <<c, z, x>>
  IN [i \in 1..3 |-> QInt(MathRound(QMul(QAdd(rgb[i], m), QInt(255))))]

\* const contrastFactor = (259 * (contrast * 255 + 255)) / (255 * (259 - contrast * 255))
contrastFactor(contrast) ==
  QDiv(QMul(QInt(259), QAdd(QMul(contrast, QInt(255)), QInt(255))),
       QMul(QInt(255), QSub(QInt(259), QMul(contrast, QInt(255)))))

\* The "Brightness" and "Contrast" steps of the pixel loop.
contrastStep(pixel, adj) ==
  LET br == [i \in 1..3 |-> QMin(QInt(255), QMul(QInt(pixel[i]), adj.brightness))]
      cf == contrastFactor(adj.contrast)
  IN [i \in 1..3 |->
        QMin(QInt(255),
             QMax(QInt(0), QAdd(QMul(cf, QSub(br[i], QInt(128))), QInt(128))))]

\* hsv[0] = (hsv[0] + adjustments.hue / 360) % 1, for the pixel co that the
\* contrast step left.
rotatedHue(co, adj) ==
  QRem(QAdd(rgbToHsv(co[1], co[2], co[3])[1], Q(adj.hue, 360)), QInt(1))

\* The body of applyAdjustments' pixel loop: pixel is <<r, g, b>> as read from
\* ImageData.data, the result is what is stored back into it.
applyAdjustments(pixel, adj) ==
  LET \* Brightness, Contrast
      co == contrastStep(pixel, adj)
      \* Hue rotation
      hsv == rgbToHsv(co[1], co[2], co[3])
      hu == IF adj.hue # 0
              THEN hsvToRgb(rotatedHue(co, adj), hsv[2], hsv[3])
              ELSE co
      \* Saturation
      gray == QAdd(QAdd(QMul(Q(299, 1000), hu[1]), QMul(Q(587, 1000), hu[2])),
                   QMul(Q(114, 1000), hu[3]))
      sa == [i \in 1..3 |-> QAdd(gray, QMul(QSub(hu[i], gray), adj.saturation))]
      \* Invert
      iv == [i \in 1..3 |-> IF adj.invert THEN QSub(QInt(255), sa[i]) ELSE sa[i]]
  IN [i \in 1..3 |-> ToUint8Clamp(QMin(QInt(255), QMax(QInt(0), iv[i])))]

\* Channel values the material image's pixels are drawn from.
ChannelSamples == {0, 100, 127, 128, 129, 255}

\* The identity setting of the Adjustments type ("default 1", "default 0") and
\* of page.tsx's defaultConfig.
IdentityAdjustments ==
  [brightness |-> QInt(1), contrast |-> QInt(1), hue |-> 0,
   saturation |-> QInt(1), invert |-> FALSE]

\* Settings the filter is exercised with (slider values of ControlPanel).
AdjustmentSettings ==
  [brightness : {QInt(1), Q(1, 2)},
   contrast   : {QInt(1), QInt(0)},
   hue        : {0, 120},
   saturation : {QInt(1), QInt(0)},
   invert     : BOOLEAN]

AdjustIdle ==
  /\ adjustments = IdentityAdjustments
  /\ srcPixel = <<0, 0, 0>>
  /\ imgPixel = <<0, 0, 0>>
  /\ passes = MaxPasses

InitAdjust ==
  /\ adjustments \in AdjustmentSettings
  /\ srcPixel \in ChannelSamples \X ChannelSamples \X ChannelSamples
  /\ imgPixel = srcPixel
  /\ passes = 0

\* Contrast values of the nominal domain [0, 2]: positions of the slider
\* (min 0, max 2, step 0.01; 1.01 and 1.02 are the two next to the pole) and
\* 259/255, which a caller of createTextureCanvas can hand in
\* (adjustments.contrast is a number, and no code restricts it).
ContrastSettings ==
  {QInt(0), QInt(1), Q(101, 100), Q(102, 100), Q(259, 255), QInt(2)}

\* Channels away from 128: with an infinite factor, contrastFactor * (r - 128)
\* is Infinity * 0 = NaN at 128, a value the fractions here do not have.
ContrastChannelSamples == {0, 50, 255}

\* The filter with every other adjustment at its identity setting.
InitAdjustContrast ==
  /\ adjustments \in
       {[IdentityAdjustments EXCEPT !.contrast = c] : c \in ContrastSettings}
  /\ srcPixel \in ContrastChannelSamples \X ContrastChannelSamples \X ContrastChannelSamples
  /\ imgPixel = srcPixel
  /\ passes = 0

\* Settings with a hue rotation; contrast 0 is the setting whose factor is 1.
HueSettings ==
  [brightness : {QInt(1)},
   contrast   : {QInt(0), QInt(1)},
   hue        : {0, 10, 120, 350},
   saturation : {QInt(1), Q(1, 2)},
   invert     : BOOLEAN]

\* The filter on one pixel under a hue rotation.
InitAdjustHue ==
  /\ adjustments \in HueSettings
  /\ srcPixel \in ChannelSamples \X ChannelSamples \X ChannelSamples
  /\ imgPixel = srcPixel
  /\ passes = 0

\* One call of applyAdjustments on the image produced by the previous one.
ApplyAdjustments ==
  /\ passes < MaxPasses
  /\ imgPixel' = applyAdjustments(imgPixel, adjustments)
  /\ passes' = passes + 1
  /\ UNCHANGED <<adjustments, srcPixel>>
  /\ UNCHANGED adjustRest

NextAdjust == ApplyAdjustments

(***************************************************************************)
(*                     CanvasRenderingContext2D                            *)
(* A context is its drawing state (fillStyle, globalCompositeOperation,    *)
(* globalAlpha, the save() stack) and the list of drawing operations       *)
(* performed on the canvas, each with the state it was performed under.    *)
(* `site` names the step of the builder that issued the operation.         *)
(***************************************************************************)
getContext ==
  [ops |-> <<>>, fillStyle |-> "#000000",
   globalCompositeOperation |-> "source-over", globalAlpha |-> QInt(1),
   saved |-> <<>>]

setFillStyle(c, v) == [c EXCEPT !.fillStyle = v]
setGlobalCompositeOperation(c, v) == [c EXCEPT !.globalCompositeOperation = v]
setGlobalAlpha(c, v) == [c EXCEPT !.globalAlpha = v]

save(c) ==
  [c EXCEPT !.saved = Append(@, [fillStyle |-> c.fillStyle,
                                 globalCompositeOperation |-> c.globalCompositeOperation,
                                 globalAlpha |-> c.globalAlpha])]

restore(c) ==
  IF c.saved = <<>> THEN c
  ELSE LET top == c.saved[Len(c.saved)]
       IN [c EXCEPT !.fillStyle = top.fillStyle,
                    !.globalCompositeOperation = top.globalCompositeOperation,
                    !.globalAlpha = top.globalAlpha,
                    !.saved = SubSeq(@, 1, Len(@) - 1)]

\* One drawing operation under the context's current state.
Operation(c, op, site, src, x, y, w, h) ==
  [op |-> op, site |-> site, src |-> src, x |-> x, y |-> y, w |-> w, h |-> h,
   globalCompositeOperation |-> c.globalCompositeOperation,
   globalAlpha |-> c.globalAlpha]

\* ctx.fillRect(x, y, w, h)
fillRect(c, site, x, y, w, h) ==
  [c EXCEPT !.ops = Append(@, Operation(c, "fillRect", site, c.fillStyle, x, y, w, h))]

\* ctx.drawImage(image, x, y, w, h)
drawImage(c, site, image, x, y, w, h) ==
  [c EXCEPT !.ops = Append(@, Operation(c, "drawImage", site, image, x, y, w, h))]

(***************************************************************************)
(*             COLOR MAP BUILDER: createTextureCanvas                      *)
(***************************************************************************)
\* outputWidth / outputHeight: the defaults, and what every caller passes.
outputWidth == 2048
outputHeight == 2048

\* Images.  `complete` and `naturalWidth` are what the builder tests before it
\* draws a stencil.
PatternNull == [kind |-> "null", complete |-> FALSE, naturalWidth |-> 0, opaque |-> FALSE]

\* The pattern's own SVG, rasterised by the browser.
SvgImage(naturalWidth) ==
  [kind |-> "svg", complete |-> TRUE, naturalWidth |-> naturalWidth, opaque |-> FALSE]

\* loadImage's fallback: a 200x200 canvas filled with #cccccc.
GrayFallbackImage ==
  [kind |-> "fallbackGray", complete |-> TRUE, naturalWidth |-> 200, opaque |-> TRUE]

\* createFallbackPattern(): a 100x100 canvas filled with #000000 (left blank
\* when it has no 2D context), handed out as a new Image whose src was just
\* set: whether that image is complete when the caller looks at it is up to
\* the browser.
createFallbackPattern(complete, hasCtx) ==
  [kind |-> "fallbackPattern", complete |-> complete,
   naturalWidth |-> IF complete THEN 100 ELSE 0, opaque |-> hasCtx]

\* `patternImg && patternImg.complete && patternImg.naturalWidth > 0`
StencilUsable(img) == img # PatternNull /\ img.complete /\ img.naturalWidth > 0

\* `if (!pattern) throw new Error('Pattern is required')`
PatternRequired(cfg) == cfg.pattern = "none"

\* patternUnitWidth = outputWidth / columns, patternUnitHeight = outputHeight / rows
patternUnitWidth(cfg) == QDiv(QInt(outputWidth), QInt(cfg.columns))
patternUnitHeight(cfg) == QDiv(QInt(outputHeight), QInt(cfg.rows))

\* A tiling whose first tile sits one unit in.
tileOriginFromOne(index, unit) == QMul(QInt(index + 1), unit)

\* const x = col * patternUnitWidth;  const y = row * patternUnitHeight;
tileOrigin(index, unit) == QMul(QInt(index), unit)

\* for (row = 0; row < rows; row++) for (col = 0; col < columns; col++)
\*   ctx.drawImage(patternImg, x, y, patternUnitWidth, patternUnitHeight)
tilePattern(c, site, cfg, img) ==
  LET uw == patternUnitWidth(cfg)
      uh == patternUnitHeight(cfg)
  IN [c EXCEPT !.ops = @ \o
        [i \in 1..(cfg.rows * cfg.columns) |->
           Operation(c, "drawImage", site, img.kind,
                     tileOrigin((i - 1) % cfg.columns, uw),
                     tileOrigin((i - 1) \div cfg.columns, uh), uw, uh)]]

\* jointHeight = (jointSettings.horizontal / patternSettings.height) * patternUnitHeight
jointHeight(cfg) ==
  QMul(QDiv(QInt(cfg.horizontal), QInt(cfg.height)), patternUnitHeight(cfg))

\* jointWidth = (jointSettings.vertical / patternSettings.width) * patternUnitWidth
jointWidth(cfg) ==
  QMul(QDiv(QInt(cfg.vertical), QInt(cfg.width)), patternUnitWidth(cfg))

\* `if (jointSettings.horizontal > 0)`: the guard of the horizontal bands
drawsHorizontalJoints(cfg) == cfg.horizontal > 0

\* `if (jointSettings.vertical > 0)`: the guard of the vertical bands
drawsVerticalJoints(cfg) == cfg.vertical > 0

\* "Draw joints if enabled": the same block ends both paths of the builder.
drawJoints(c, cfg) ==
  IF cfg.horizontal > 0 \/ cfg.vertical > 0
    THEN
      LET uw == patternUnitWidth(cfg)
          uh == patternUnitHeight(cfg)
          c1 == setGlobalAlpha(setFillStyle(save(c), cfg.jointTint), Q(8, 10))
          jh == jointHeight(cfg)
          c2 == IF drawsHorizontalJoints(cfg)
                  THEN [c1 EXCEPT !.ops = @ \o
                          [row \in 1..(cfg.rows - 1) |->
                             Operation(c1, "fillRect", "jointHorizontal", c1.fillStyle,
                                       QInt(0), QSub(QMul(QInt(row), uh), QDiv(jh, QInt(2))),
                                       QInt(outputWidth), jh)]]
                  ELSE c1
          jw == jointWidth(cfg)
          c3 == IF drawsVerticalJoints(cfg)
                  THEN [c2 EXCEPT !.ops = @ \o
                          [col \in 1..(cfg.columns - 1) |->
                             Operation(c2, "fillRect", "jointVertical", c2.fillStyle,
                                       QSub(QMul(QInt(col), uw), QDiv(jw, QInt(2))), QInt(0),
                                       jw, QInt(outputHeight))]]
                  ELSE c2
      IN restore(c3)
    ELSE c

\* "If no material, show pattern directly with clear colors" (the placeholder).
\* The grid of the else branch is stroked, one line per interior boundary.
drawWithoutMaterial(c, cfg, img) ==
  LET uw == patternUnitWidth(cfg)
      uh == patternUnitHeight(cfg)
      c1 == fillRect(setFillStyle(c, "#f5f5f5"), "placeholderBackground",
                     QInt(0), QInt(0), QInt(outputWidth), QInt(outputHeight))
      c2 == IF StencilUsable(img)
              THEN tilePattern(setFillStyle(c1, "#333333"), "stencil", cfg, img)
              ELSE [c1 EXCEPT !.ops = @
                      \o [row \in 1..(cfg.rows - 1) |->
                            Operation(c1, "stroke", "placeholderGrid", "#cccccc",
                                      QInt(0), QMul(QInt(row), uh), QInt(outputWidth), QInt(0))]
                      \o [col \in 1..(cfg.columns - 1) |->
                            Operation(c1, "stroke", "placeholderGrid", "#cccccc",
                                      QMul(QInt(col), uw), QInt(0), QInt(0), QInt(outputHeight))]]
  IN drawJoints(c2, cfg)

\* "Material-based rendering", up to the await of loadImage(material.imageUrl).
fillBackground(c) ==
  fillRect(setFillStyle(c, "#f0f0f0"), "background",
           QInt(0), QInt(0), QInt(outputWidth), QInt(outputHeight))

\* "Step 1" to "Step 4": what runs once applyAdjustments has returned.
drawWithMaterial(c, cfg, img, matImg) ==
  LET c1 == drawImage(c, "material", matImg,
                      QInt(0), QInt(0), QInt(outputWidth), QInt(outputHeight))
      c2 == IF cfg.tint # "#FFFFFF"
              THEN setGlobalCompositeOperation(
                     fillRect(setFillStyle(setGlobalCompositeOperation(c1, "multiply"),
                                           cfg.tint),
                              "tint", QInt(0), QInt(0),
                              QInt(outputWidth), QInt(outputHeight)),
                     "source-over")
              ELSE c1
      c3 == IF StencilUsable(img)
              THEN restore(
                     setGlobalAlpha(
                       setGlobalCompositeOperation(
                         tilePattern(
                           setGlobalAlpha(
                             setGlobalCompositeOperation(save(c2), "multiply"),
                             Q(4, 10)),
                           "stencil", cfg, img),
                         "source-over"),
                       QInt(1)))
              ELSE c2
  IN drawJoints(c3, cfg)

\* The configurations the builder is called with.  pattern: "none" is
\* config.pattern = null, "nourl" a pattern with an empty svgUrl, "api" an
\* svgUrl under /api/pattern, "external" any other svgUrl.
Configs ==
  [pattern    : {"none", "nourl", "api", "external"},
   material   : BOOLEAN,
   rows       : 1..MaxRows,
   columns    : 1..MaxColumns,
   width      : {400},
   height     : {100, 4000},
   tint       : {"#FFFFFF", "#C8A27A"},
   jointTint  : {"#FFFFFF"},
   horizontal : {0, 1, 5},
   vertical   : {0, 5}]

\* The configuration the variables rest at while the builder is not in use.
UnusedConfig ==
  [pattern |-> "api", material |-> FALSE, rows |-> 1, columns |-> 1,
   width |-> 400, height |-> 100, tint |-> "#FFFFFF", jointTint |-> "#FFFFFF",
   horizontal |-> 5, vertical |-> 5]

\* createTextureCanvas takes any TextureConfig: neither it nor its callers
\* look at the counts or the millimeter dimensions before the raster work.
\* These are configurations with a count below 1 or a zero dimension, next to
\* the valid one.
UnvalidatedConfigs ==
  [pattern    : {"nourl", "api", "external"},
   material   : BOOLEAN,
   rows       : {-5, 0, 2},
   columns    : {0, 2},
   width      : {0, 400},
   height     : {0, 100},
   tint       : {"#FFFFFF"},
   jointTint  : {"#FFFFFF"},
   horizontal : {0, 5},
   vertical   : {0, 5}]

RenderIdle ==
  /\ config = UnusedConfig
  /\ renderPc = "idle"
  /\ retrieval = "none"
  /\ patternImg = PatternNull
  /\ materialImg = "none"
  /\ textureCanvas = getContext
  /\ error = ""

InitRender ==
  /\ config \in Configs
  /\ renderPc = "start"
  /\ retrieval = "none"
  /\ patternImg = PatternNull
  /\ materialImg = "none"
  /\ textureCanvas = getContext
  /\ error = ""

InitRenderUnvalidated ==
  /\ config \in UnvalidatedConfigs
  /\ renderPc = "start"
  /\ retrieval = "none"
  /\ patternImg = PatternNull
  /\ materialImg = "none"
  /\ textureCanvas = getContext
  /\ error = ""

\* The call rejects with `new Error(message)`.
Rejects(message) ==
  /\ renderPc' = "rejected"
  /\ error' = message
  /\ UNCHANGED <<config, patternImg, materialImg, textureCanvas>>

\* The builder goes on after the "Load pattern SVG" block with `patternImg`
\* set to img: either the whole no-material path, or the background fill and
\* the call of loadImage(material.imageUrl).
ContinueWithStencil(img) ==
  /\ patternImg' = img
  /\ IF ~config.material
       THEN /\ textureCanvas' = drawWithoutMaterial(textureCanvas, config, img)
            /\ renderPc' = "done"
       ELSE /\ textureCanvas' = fillBackground(textureCanvas)
            /\ renderPc' = "material"
  /\ UNCHANGED <<config, materialImg, error>>

\* createTextureCanvas is called: everything up to its first await.
CallCreateTextureCanvas ==
  /\ renderPc = "start"
  /\ \E hasCtx \in BOOLEAN :
       IF PatternRequired(config)
         THEN Rejects("Pattern is required") /\ retrieval' = retrieval
       ELSE IF ~hasCtx
         THEN Rejects("Failed to get canvas context") /\ retrieval' = retrieval
       ELSE IF config.pattern = "nourl"
         THEN ContinueWithStencil(PatternNull) /\ retrieval' = retrieval
       ELSE /\ renderPc' = IF config.pattern = "api" THEN "fetch" ELSE "directLoad"
            /\ retrieval' = "pending"
            /\ UNCHANGED <<config, patternImg, materialImg, textureCanvas, error>>
  /\ UNCHANGED renderRest

\* loadPatternSVG's catch block (api branch): `return createFallbackPattern()`.
CatchReturnsFallback ==
  \E complete, hasCtx \in BOOLEAN :
    ContinueWithStencil(createFallbackPattern(complete, hasCtx))

\* loadPatternSVG, api branch: `await fetch(url)` settles.
FetchSettles ==
  /\ renderPc = "fetch"
  /\ \/ /\ retrieval' = "ok"             \* response.ok
        /\ renderPc' = "text"
        /\ UNCHANGED <<config, patternImg, materialImg, textureCanvas, error>>
     \/ /\ retrieval' = "httpError"      \* !response.ok: throw, caught below
        /\ CatchReturnsFallback
     \/ /\ retrieval' = "networkError"   \* fetch rejected
        /\ CatchReturnsFallback
  /\ UNCHANGED renderRest

\* loadPatternSVG, api branch: `await response.text()` settles; on success the
\* blob URL is handed to loadImage.
TextSettles ==
  /\ renderPc = "text"
  /\ \/ /\ renderPc' = "loadImage"
        /\ UNCHANGED <<config, retrieval, patternImg, materialImg, textureCanvas, error>>
     \/ /\ retrieval' = "bodyError"
        /\ CatchReturnsFallback
  /\ UNCHANGED renderRest

\* loadPatternSVG, api branch: loadImage(blobUrl) sees onload or onerror.
\* onload resolves with the image whatever its size; onerror swaps in
\* loadImage's gray fallback and waits again.
BlobImageSettles ==
  /\ renderPc = "loadImage"
  /\ \/ /\ retrieval' = "ok"
        /\ ContinueWithStencil(SvgImage(100))
     \/ /\ retrieval' = "zeroSize"
        /\ ContinueWithStencil(SvgImage(0))
     \/ /\ retrieval' = "malformed"
        /\ \/ /\ renderPc' = "loadImageFallback"
              /\ UNCHANGED <<config, patternImg, materialImg, textureCanvas, error>>
           \/ CatchReturnsFallback     \* no fallbackCtx: reject, caught
  /\ UNCHANGED renderRest

\* loadImage's fallback data URL loads, or fails too.
BlobFallbackSettles ==
  /\ renderPc = "loadImageFallback"
  /\ \/ ContinueWithStencil(GrayFallbackImage)
     \/ CatchReturnsFallback
  /\ retrieval' = retrieval
  /\ UNCHANGED renderRest

\* loadPatternSVG, external branch: the first of img.onload, img.onerror and
\* the 10 s timer.  A rejection lands in createTextureCanvas's own catch,
\* which leaves patternImg null.
DirectLoadSettles ==
  /\ renderPc = "directLoad"
  /\ \/ /\ retrieval' = "ok"
        /\ ContinueWithStencil(SvgImage(100))
     \/ /\ retrieval' = "zeroSize"       \* 'Pattern SVG loaded but appears broken'
        /\ ContinueWithStencil(PatternNull)
     \/ /\ retrieval' = "imageError"     \* resolve(createFallbackPattern())
        /\ CatchReturnsFallback
     \/ /\ retrieval' = "timeout"        \* 'Pattern SVG load timeout'
        /\ ContinueWithStencil(PatternNull)
  /\ UNCHANGED renderRest

\* `await loadImage(material.imageUrl)`: onload or onerror.
MaterialSettles ==
  /\ renderPc = "material"
  /\ \/ /\ materialImg' = "material"
        /\ renderPc' = "adjust"
        /\ UNCHANGED <<config, patternImg, textureCanvas, error>>
     \/ /\ renderPc' = "materialFallback"
        /\ UNCHANGED <<config, patternImg, materialImg, textureCanvas, error>>
     \/ Rejects("Failed to create fallback canvas")
  /\ UNCHANGED retrieval
  /\ UNCHANGED renderRest

\* loadImage's fallback for the material loads, or fails too.
MaterialFallbackSettles ==
  /\ renderPc = "materialFallback"
  /\ \/ /\ materialImg' = "fallbackGray"
        /\ renderPc' = "adjust"
        /\ UNCHANGED <<config, patternImg, textureCanvas, error>>
     \/ Rejects("Failed to load image")
  /\ UNCHANGED retrieval
  /\ UNCHANGED renderRest

\* `await applyAdjustments(...)` resumes: the rest of the builder is synchronous.
AdjustResumes ==
  /\ renderPc = "adjust"
  /\ textureCanvas' = drawWithMaterial(textureCanvas, config, patternImg, materialImg)
  /\ renderPc' = "done"
  /\ UNCHANGED <<config, retrieval, patternImg, materialImg, error>>
  /\ UNCHANGED renderRest

NextRender ==
  \/ CallCreateTextureCanvas
  \/ FetchSettles
  \/ TextSettles
  \/ BlobImageSettles
  \/ BlobFallbackSettles
  \/ DirectLoadSettles
  \/ MaterialSettles
  \/ MaterialFallbackSettles
  \/ AdjustResumes

(***************************************************************************)
(*                     NORMAL MAP: createNormalMap                         *)
(***************************************************************************)
PixelIndexes == 0..(GridWidth * GridHeight - 1)

\* Math.max(0, Math.min(limit - 1, p))
clampCoordinate(p, limit) == IF p < 0 THEN 0 ELSE IF p > limit - 1 THEN limit - 1 ELSE p

\* getHeight(px, py): data[i] / 255 at the clamped coordinates
getHeight(d, px, py) ==
  Q(d[clampCoordinate(py, GridHeight) * GridWidth + clampCoordinate(px, GridWidth)], 255)

\* Largest k in lo..hi with k*k*den <= num (lo satisfies it).
RECURSIVE RootFloor(_, _, _, _)
RootFloor(num, den, lo, hi) ==
  IF lo = hi THEN lo
  ELSE LET mid == (lo + hi + 1) \div 2
       IN IF mid * mid * den <= num
            THEN RootFloor(num, den, mid, hi)
            ELSE RootFloor(num, den, lo, mid - 1)

\* Math.sqrt of a rational whose root is rational.
HasExactRoot(q) ==
  LET rn == RootFloor(q[1], 1, 0, 256)
      rd == RootFloor(q[2], 1, 0, 256)
  IN rn * rn = q[1] /\ rd * rd = q[2]

ExactRoot(q) == Q(RootFloor(q[1], 1, 0, 256), RootFloor(q[2], 1, 0, 256))

\* normal[idx] = ((d / length) * 0.5 + 0.5) * 255, as the byte the
\* Uint8ClampedArray keeps.  When d / length is rational the value is computed
\* and stored exactly.  Otherwise it is 127.5 + t with t = 127.5 * d / length
\* irrational, so no tie arises and the byte is 128 + floor(t), found from
\* t*t = (127.5 * d)^2 / lengthSq.
normalByte(d, lengthSq) ==
  IF QEq(d, QInt(0)) \/ HasExactRoot(lengthSq)
    THEN LET component == IF QEq(d, QInt(0)) THEN QInt(0)
                          ELSE QDiv(d, ExactRoot(lengthSq))
         IN ToUint8Clamp(QMul(QAdd(QMul(component, Q(1, 2)), Q(1, 2)), QInt(255)))
    ELSE LET tSq == QDiv(QMul(QMul(Q(255, 2), d), QMul(Q(255, 2), d)), lengthSq)
             k == RootFloor(tSq[1], tSq[2], 0, 128)
         IN IF QLt(QInt(0), d) THEN 128 + k ELSE 128 - (k + 1)

\* The body of the loop for the pixel at (x, y).
normalAt(d, x, y) ==
  LET heightL == getHeight(d, x - 1, y)
      heightR == getHeight(d, x + 1, y)
      heightU == getHeight(d, x, y - 1)
      heightD == getHeight(d, x, y + 1)
      dx == QMul(QSub(heightR, heightL), Q(1, 2))
      dy == QMul(QSub(heightD, heightU), Q(1, 2))
      dz == QInt(1)
      lengthSq == QAdd(QAdd(QMul(dx, dx), QMul(dy, dy)), QMul(dz, dz))
  IN <<normalByte(dx, lengthSq), normalByte(dy, lengthSq), normalByte(dz, lengthSq), 255>>

\* normalCtx.createImageData: transparent black.
createImageData == [i \in PixelIndexes |-> <<0, 0, 0, 0>>]

\* The heightfields: fully raised (255) or fully recessed (0) at each pixel.
Heightfields == [PixelIndexes -> {0, 255}]

FlatHeightfield == [i \in PixelIndexes |-> 255]

NormalIdle ==
  /\ data = FlatHeightfield
  /\ normal = createImageData
  /\ normalPc = "idle"

InitNormal ==
  /\ data \in Heightfields
  /\ normal = createImageData
  /\ normalPc = "start"

\* createNormalMap(displacementCanvas, outputWidth, outputHeight)
CreateNormalMap ==
  /\ normalPc = "start"
  /\ \E hasCtx, hasNormalCtx \in BOOLEAN :
       IF hasCtx /\ hasNormalCtx
         THEN /\ normal' = [i \in PixelIndexes |->
                              normalAt(data, i % GridWidth, i \div GridWidth)]
              /\ normalPc' = "done"
         ELSE /\ normal' = normal
              /\ normalPc' = IF hasCtx THEN "rejectedNormalContext"
                             ELSE "rejectedDisplacementContext"
  /\ data' = data
  /\ UNCHANGED normalRest

NextNormal == CreateNormalMap

(***************************************************************************)
(*        PATTERN MASK: createTextureCanvas of src/unnamed/part_001        *)
(* The output is maskColumns * StencilWidth pixels wide and maskRows       *)
(* pixels high, so that a tile is exactly one stencil image; pixel (x, y)  *)
(* has index y * width + x + 1.                                            *)
(***************************************************************************)
MaskWidth == maskColumns * StencilWidth
MaskPixels == 1..(MaskWidth * maskRows)

\* The pixels a stencil image is made of: gray levels, opaque or transparent.
StencilPixels == [gray : {0, 127, 128, 255}, alpha : {0, 255}]

\* maskCtx.drawImage(patternImg, ...) over the white fill: an opaque stencil
\* pixel replaces the white, a transparent one leaves it; the result is opaque.
drawOverWhite(px) ==
  IF px.alpha = 255 THEN <<px.gray, px.gray, px.gray, 255>> ELSE <<255, 255, 255, 255>>

\* maskCanvas after the tiling loop.
tiledMask ==
  [i \in MaskPixels |-> drawOverWhite(stencil[(((i - 1) % MaskWidth) % StencilWidth) + 1])]

\* brightness = (r + g + b) / 3;  brightness < 128 || a < 128
isPatternPixel(rgba) == QLt(Q(rgba[1] + rgba[2] + rgba[3], 3), QInt(128)) \/ rgba[4] < 128

\* The classification loop: maskData[i + 3] = 255 or 0.
classifyMask(m) ==
  [i \in DOMAIN m |-> <<m[i][1], m[i][2], m[i][3], IF isPatternPixel(m[i]) THEN 255 ELSE 0>>]

\* globalCompositeOperation = 'destination-in'; drawImage(maskCanvas, 0, 0):
\* what is on the canvas keeps its alpha times the alpha of the mask.
destinationIn(dest, m) == [i \in DOMAIN dest |-> (dest[i] * m[i][4]) \div 255]

\* The material tiles drawn before the mask cover the canvas, fully opaque.
materialDrawn == [i \in MaskPixels |-> 255]

MaskIdle ==
  /\ stencil = [p \in 1..StencilWidth |-> [gray |-> 0, alpha |-> 255]]
  /\ stencilLoaded = FALSE
  /\ maskRows = 1
  /\ maskColumns = 1
  /\ maskData = <<>>
  /\ materialAlpha = <<>>
  /\ maskPc = "idle"

InitMask ==
  /\ stencil \in [1..StencilWidth -> StencilPixels]
  /\ stencilLoaded \in BOOLEAN
  /\ maskRows \in 1..MaxRows
  /\ maskColumns \in 1..MaxColumns
  /\ maskData = <<>>
  /\ materialAlpha = <<>>
  /\ maskPc = "start"

\* "Apply pattern mask": the synchronous rest of the builder once the material
\* is drawn.  Without a usable stencil, or without a 2D context for the mask
\* canvas, the material is left as drawn.
ApplyPatternMask ==
  /\ maskPc = "start"
  /\ \E hasMaskCtx \in BOOLEAN :
       IF stencilLoaded /\ hasMaskCtx
         THEN /\ maskData' = classifyMask(tiledMask)
              /\ materialAlpha' = destinationIn(materialDrawn, classifyMask(tiledMask))
         ELSE /\ maskData' = maskData
              /\ materialAlpha' = materialDrawn
  /\ maskPc' = "done"
  /\ UNCHANGED <<stencil, stencilLoaded, maskRows, maskColumns>>
  /\ UNCHANGED maskRest

NextMask == ApplyPatternMask

(***************************************************************************)
(*          2D PREVIEW: TextureCanvas effect and generateTexture           *)
(* Every run of the effect sizes the canvas (which resets its bitmap and   *)
(* its context state) and starts a generateTexture call on it.  The calls  *)
(* share the canvas and its one 2D context; a call has no cancellation     *)
(* token and the effect returns no cleanup.  `ops` lists the drawing calls *)
(* a generateTexture call issues; those with a site starting in "mask" go  *)
(* to its temporary mask canvas.                                           *)
(***************************************************************************)
\* rect.width || 800, rect.height || 600
previewWidth == 800
previewHeight == 600

PreviewJobIds == 1..MaxPreviewRuns

PreviewConfigs ==
  [pattern    : {"none", "nourl", "url"},
   material   : BOOLEAN,
   rows       : {1, 2},
   columns    : {2},
   width      : {400},
   height     : {100},
   tint       : {"#FFFFFF", "#C8A27A"},
   jointTint  : {"#FFFFFF"},
   horizontal : {0, 5},
   vertical   : {5}]

NoPreviewJob ==
  [pc |-> "none", config |-> UnusedConfig, patternLoaded |-> FALSE, materialImg |-> "none"]

PreviewFinished(job) == job.pc \in {"done", "rejected"}

\* canvasRef.current.width = ...: the canvas is cleared, the context reset.
resetCanvas == getContext

\* "Clear canvas"
clearPreview(c) ==
  fillRect(setFillStyle(c, "#f0f0f0"), "clear",
           QInt(0), QInt(0), QInt(previewWidth), QInt(previewHeight))

\* patternWidth = previewWidth / columns, patternHeight = previewHeight / rows
patternWidth(cfg) == QDiv(QInt(previewWidth), QInt(cfg.columns))
patternHeight(cfg) == QDiv(QInt(previewHeight), QInt(cfg.rows))

\* "Apply pattern mask by tiling the SVG pattern"
applyPreviewMask(c, cfg) ==
  LET pw == patternWidth(cfg)
      ph == patternHeight(cfg)
      c1 == save(c)
      maskFill == Operation(getContext, "fillRect", "maskFill", "#ffffff", QInt(0), QInt(0),
                            QInt(previewWidth), QInt(previewHeight))
      c2 == [c1 EXCEPT !.ops = (@ \o <<maskFill>>) \o
               [i \in 1..(cfg.rows * cfg.columns) |->
                  Operation(getContext, "drawImage", "maskTile", "svg",
                            tileOrigin((i - 1) % cfg.columns, pw),
                            tileOrigin((i - 1) \div cfg.columns, ph), pw, ph)]]
      c3 == drawImage(setGlobalCompositeOperation(c2, "destination-in"), "mask",
                      "maskCanvas", QInt(0), QInt(0),
                      QInt(previewWidth), QInt(previewHeight))
  IN restore(c3)

\* "Draw joints if enabled" of generateTexture
drawPreviewJoints(c, cfg) ==
  IF cfg.horizontal > 0 \/ cfg.vertical > 0
    THEN
      LET pw == patternWidth(cfg)
          ph == patternHeight(cfg)
          c1 == setGlobalAlpha(setFillStyle(save(c), cfg.jointTint), Q(8, 10))
          jh == QMul(QDiv(QInt(cfg.horizontal), QInt(cfg.height)), ph)
          c2 == IF cfg.horizontal > 0
                  THEN [c1 EXCEPT !.ops = @ \o
                          [row \in 1..(cfg.rows - 1) |->
                             Operation(c1, "fillRect", "jointHorizontal", c1.fillStyle,
                                       QInt(0), QSub(QMul(QInt(row), ph), QDiv(jh, QInt(2))),
                                       QInt(previewWidth), jh)]]
                  ELSE c1
          jw == QMul(QDiv(QInt(cfg.vertical), QInt(cfg.width)), pw)
          c3 == IF cfg.vertical > 0
                  THEN [c2 EXCEPT !.ops = @ \o
                          [col \in 1..(cfg.columns - 1) |->
                             Operation(c2, "fillRect", "jointVertical", c2.fillStyle,
                                       QSub(QMul(QInt(col), pw), QDiv(jw, QInt(2))), QInt(0),
                                       jw, QInt(previewHeight))]]
                  ELSE c2
      IN restore(c3)
    ELSE c

\* What generateTexture draws once `await applyAdjustments` has returned: the
\* tint fill (which leaves 'multiply' set), the material, the mask, the joints.
drawPreview(c, cfg, patternLoaded, matImg) ==
  LET c1 == IF cfg.tint # "#FFFFFF"
              THEN setGlobalCompositeOperation(
                     fillRect(setFillStyle(setGlobalCompositeOperation(c, "source-over"),
                                           cfg.tint),
                              "tint", QInt(0), QInt(0),
                              QInt(previewWidth), QInt(previewHeight)),
                     "multiply")
              ELSE c
      c2 == drawImage(c1, "material", matImg, QInt(0), QInt(0),
                      QInt(previewWidth), QInt(previewHeight))
      c3 == IF patternLoaded THEN applyPreviewMask(c2, cfg) ELSE c2
  IN drawPreviewJoints(c3, cfg)

PreviewIdle ==
  /\ previewRuns = MaxPreviewRuns
  /\ previewJobs = [j \in PreviewJobIds |-> NoPreviewJob]
  /\ preview = getContext

InitPreview ==
  /\ previewRuns = 0
  /\ previewJobs = [j \in PreviewJobIds |-> NoPreviewJob]
  /\ preview = getContext

\* The job's next position and locals, the rest of the jobs unchanged.
PreviewJobMoves(j, pc, patternLoaded, matImg) ==
  previewJobs' = [previewJobs EXCEPT ![j].pc = pc,
                                     ![j].patternLoaded = patternLoaded,
                                     ![j].materialImg = matImg]

\* useEffect(..., [config]): size the canvas, call generateTexture, which runs
\* up to its first await.
PreviewEffect(cfg) ==
  /\ previewRuns < MaxPreviewRuns
  /\ previewRuns' = previewRuns + 1
  /\ preview' = clearPreview(resetCanvas)
  /\ previewJobs' =
       [previewJobs EXCEPT ![previewRuns + 1] =
          [pc |-> IF cfg.pattern = "none" \/ ~cfg.material THEN "done"
                  ELSE IF cfg.pattern = "nourl" THEN "material"
                  ELSE "fetch",
           config |-> cfg, patternLoaded |-> FALSE, materialImg |-> "none"]]
  /\ UNCHANGED previewRest

PreviewConfigChange == \E cfg \in PreviewConfigs : PreviewEffect(cfg)

\* `await fetch(pattern.svgUrl)`: ok, an error status (no stencil), or a
\* rejection, after which the catch block tries a direct image load.
PreviewFetchSettles(j) ==
  /\ previewJobs[j].pc = "fetch"
  /\ \E next \in {"text", "material", "direct"} :
       PreviewJobMoves(j, next, FALSE, "none")
  /\ UNCHANGED <<previewRuns, preview>>
  /\ UNCHANGED previewRest

\* `await response.text()`
PreviewTextSettles(j) ==
  /\ previewJobs[j].pc = "text"
  /\ \E next \in {"image", "direct"} :
       PreviewJobMoves(j, next, FALSE, "none")
  /\ UNCHANGED <<previewRuns, preview>>
  /\ UNCHANGED previewRest

\* The stencil image (from the blob, or loaded directly) fires onload or
\* onerror; patternLoaded is set only by an onload of an image with a size.
PreviewImageSettles(j) ==
  /\ previewJobs[j].pc \in {"image", "direct"}
  /\ \E loaded \in BOOLEAN : PreviewJobMoves(j, "material", loaded, "none")
  /\ UNCHANGED <<previewRuns, preview>>
  /\ UNCHANGED previewRest

\* The call resumes after the material promise: applyAdjustments and all the
\* drawing follow without another task in between.
PreviewDraws(j, matImg) ==
  /\ PreviewJobMoves(j, "done", previewJobs[j].patternLoaded, matImg)
  /\ preview' = drawPreview(preview, previewJobs[j].config,
                            previewJobs[j].patternLoaded, matImg)

\* materialImg fires onload, or onerror (the gray fallback is loaded next, or
\* the promise rejects for want of a fallback context).
PreviewMaterialSettles(j) ==
  /\ previewJobs[j].pc = "material"
  /\ \/ PreviewDraws(j, "material")
     \/ /\ \E next \in {"materialFallback", "rejected"} :
             PreviewJobMoves(j, next, previewJobs[j].patternLoaded, "none")
        /\ preview' = preview
  /\ UNCHANGED previewRuns
  /\ UNCHANGED previewRest

\* The gray fallback fires onload or onerror.
PreviewMaterialFallbackSettles(j) ==
  /\ previewJobs[j].pc = "materialFallback"
  /\ \/ PreviewDraws(j, "fallbackGray")
     \/ /\ PreviewJobMoves(j, "rejected", previewJobs[j].patternLoaded, "none")
        /\ preview' = preview
  /\ UNCHANGED previewRuns
  /\ UNCHANGED previewRest

NextPreview ==
  \/ PreviewConfigChange
  \/ \E j \in PreviewJobIds :
       \/ PreviewFetchSettles(j)
       \/ PreviewTextSettles(j)
       \/ PreviewImageSettles(j)
       \/ PreviewMaterialSettles(j)
       \/ PreviewMaterialFallbackSettles(j)

\* The canvas a generateTexture call leaves when it is the only one to draw
\* between the effect run that started it and its end.
RenderingOf(job) ==
  IF job.pc = "done" /\ job.materialImg # "none"
    THEN drawPreview(clearPreview(resetCanvas), job.config, job.patternLoaded,
                     job.materialImg)
    ELSE clearPreview(resetCanvas)

(***************************************************************************)
(*        CONFIGURATION EDITOR: page.tsx state and ControlPanel inputs     *)
(* The text of an input is a sequence of one-character strings.            *)
(***************************************************************************)
Digits == <<"0", "1", "2", "3", "4", "5", "6", "7", "8", "9">>

IsDigit(c) == \E i \in 1..10 : Digits[i] = c

DigitValue(c) == (CHOOSE i \in 1..10 : Digits[i] = c) - 1

\* The decimal value of the longest prefix of digits of text, after acc.
RECURSIVE ParseDigits(_, _)
ParseDigits(text, acc) ==
  IF text = <<>> \/ ~IsDigit(Head(text)) THEN acc
  ELSE ParseDigits(Tail(text), acc * 10 + DigitValue(Head(text)))

NaN == [nan |-> TRUE, value |-> 0]

\* parseInt(text): an optional sign, then digits up to the first character
\* that is not one; NaN when there is no digit.
parseInt(text) ==
  LET negative == text # <<>> /\ Head(text) = "-"
      signed == text # <<>> /\ Head(text) \in {"-", "+"}
      rest == IF signed THEN Tail(text) ELSE text
  IN IF rest = <<>> \/ ~IsDigit(Head(rest)) THEN NaN
     ELSE [nan |-> FALSE,
           value |-> IF negative THEN -ParseDigits(rest, 0) ELSE ParseDigits(rest, 0)]

\* `parsed || fallback`: NaN and 0 are falsy.
OrElse(parsed, fallback) ==
  IF parsed.nan \/ parsed.value = 0 THEN fallback ELSE parsed.value

\* e.target.value of an <input type="number">: the empty string, or the text
\* of a valid floating-point number.  min/max do not restrict what is typed.
TypedTexts ==
  { <<>>, <<"0">>, <<"2">>, <<"3">>, <<"2", "0">>, <<"-", "5">>,
    <<"2", ".", "5">>, <<"1", "e", "3">> }

\* pattern.defaultRows / pattern.defaultColumns: optional numbers.
Undefined == [defined |-> FALSE, value |-> 0]
OptionalCounts == {Undefined} \cup {[defined |-> TRUE, value |-> v] : v \in {2, 6}}

\* `optional || fallback`: undefined is falsy, and so is 0.
DefaultOrElse(optional, fallback) ==
  IF ~optional.defined \/ optional.value = 0 THEN fallback ELSE optional.value

\* defaultConfig.patternSettings
defaultPatternSettings == [rows |-> 6, columns |-> 4, width |-> 400, height |-> 100]

EditorIdle == patternSettings = defaultPatternSettings

InitEditor == patternSettings = defaultPatternSettings

\* onChange of the Rows input
TypeRows ==
  /\ \E text \in TypedTexts :
       patternSettings' = [patternSettings EXCEPT !.rows = OrElse(parseInt(text), 1)]
  /\ UNCHANGED editorRest

\* onChange of the Columns input
TypeColumns ==
  /\ \E text \in TypedTexts :
       patternSettings' = [patternSettings EXCEPT !.columns = OrElse(parseInt(text), 1)]
  /\ UNCHANGED editorRest

\* onChange of the pattern Width (mm) input
TypeWidth ==
  /\ \E text \in TypedTexts :
       patternSettings' = [patternSettings EXCEPT !.width = OrElse(parseInt(text), 100)]
  /\ UNCHANGED editorRest

\* onChange of the pattern Height (mm) input
TypeHeight ==
  /\ \E text \in TypedTexts :
       patternSettings' = [patternSettings EXCEPT !.height = OrElse(parseInt(text), 100)]
  /\ UNCHANGED editorRest

\* handlePatternSelect(pattern)
handlePatternSelect ==
  /\ \E defaultRows, defaultColumns \in OptionalCounts :
       patternSettings' =
         [patternSettings EXCEPT
            !.rows = DefaultOrElse(defaultRows, patternSettings.rows),
            !.columns = DefaultOrElse(defaultColumns, patternSettings.columns)]
  /\ UNCHANGED editorRest

NextEditor ==
  \/ TypeRows
  \/ TypeColumns
  \/ TypeWidth
  \/ TypeHeight
  \/ handlePatternSelect

(***************************************************************************)
(*              RENDER JOB: createTextureFromConfig                        *)
(* The four builders run one after the other.  The color, displacement and *)
(* roughness builders each call loadPatternSVG for themselves; the answers *)
(* of the retrievals are fixed beforehand in jobAnswers and are the same   *)
(* for both calls.  The displacement, normal and roughness maps are kept   *)
(* as rasters of GridWidth x GridHeight pixels, all of them stroke pixels  *)
(* of the stencil when a stencil is used.  `events` lists, in order, the   *)
(* awaits of asset retrievals and the raster work of the builders.         *)
(***************************************************************************)
Builders == {"color", "displacement", "roughness"}

\* What loadPatternSVG hands to a builder (PatternNull: it rejected and the
\* builder's catch left patternImg null).
LoaderResults ==
  {SvgImage(100), SvgImage(0), createFallbackPattern(TRUE, TRUE), PatternNull}

\* What loadImage(material.imageUrl) settles with.
MaterialResults == {"material", "fallbackGray", "rejected"}

JobConfigs == [pattern : {"none", "nourl", "url"}, material : BOOLEAN]

NoMaps == [map |-> "none", displacementMap |-> <<>>, normalMap |-> <<>>, roughnessMap |-> <<>>]

NewJob(pc) ==
  [pc |-> pc, events |-> <<>>,
   stencils |-> [b \in Builders |-> PatternNull],
   maps |-> NoMaps]

AwaitEvent(builder, asset) == [kind |-> "await", builder |-> builder, asset |-> asset]
RasterEvent(builder) == [kind |-> "raster", builder |-> builder, asset |-> "none"]

Happens(st, event) == [st EXCEPT !.events = Append(@, event)]

\* Math.random(), as far as the checks go: streams of samples, one per pixel.
RandomStreams ==
  { [i \in PixelIndexes |-> Q(1, 2)],
    [i \in PixelIndexes |-> IF i % 2 = 0 THEN QInt(0) ELSE Q(1, 2)] }

\* addNoiseToDisplacement, for one channel value:
\* noise = (Math.random() - 0.5) * intensity * 255;
\* data[i] = Math.max(0, Math.min(255, data[i] + noise))
addNoiseToDisplacement(value, random, intensity) ==
  ToUint8Clamp(
    QMax(QInt(0),
         QMin(QInt(255),
              QAdd(QInt(value),
                   QMul(QMul(QSub(random, Q(1, 2)), intensity), QInt(255))))))

\* The tile pixel of a stencil stroke: opaque black over the tile's fill.
strokePixel == <<0, 0, 0, 255>>

\* (r * 0.299 + g * 0.587 + b * 0.114) / 255
luminance(px) ==
  QDiv(QAdd(QAdd(QMul(QInt(px[1]), Q(299, 1000)), QMul(QInt(px[2]), Q(587, 1000))),
            QMul(QInt(px[3]), Q(114, 1000))),
       QInt(255))

\* createDisplacementMap, one pixel before the noise: white, or the depth of
\* the stencil pixel drawn over it.
displacementPixel(img) ==
  LET px == strokePixel
      isWhite == (px[1] > 240 /\ px[2] > 240 /\ px[3] > 240) \/ px[4] < 10
      depthIntensity == QMul(QSub(QInt(1), luminance(px)), Q(px[4], 255))
      recessedDepth == QMul(QInt(255), QSub(QInt(1), QMul(depthIntensity, Q(3, 4))))
  IN IF StencilUsable(img) /\ ~isWhite
       THEN ToUint8Clamp(QMax(QInt(0), QMin(QInt(255), recessedDepth)))
       ELSE 255

\* createRoughnessMap, one pixel before the noise: #808080, or blended toward
\* the target roughness of the stencil pixel.
roughnessPixel(img) ==
  LET px == strokePixel
      roughnessFactor == QMul(Q(px[4], 255), QSub(QInt(1), luminance(px)))
      targetRoughness == QMul(QInt(255), QAdd(Q(3, 10), QMul(roughnessFactor, Q(4, 10))))
      blended == QAdd(QMul(QInt(128), QSub(QInt(1), QMul(roughnessFactor, Q(1, 2)))),
                      QMul(targetRoughness, QMul(roughnessFactor, Q(1, 2))))
  IN IF StencilUsable(img) /\ QLt(Q(1, 100), roughnessFactor)
       THEN ToUint8Clamp(QMax(QInt(0), QMin(QInt(255), blended)))
       ELSE 128

\* The map of the color builder, as far as a job goes: which stencil and
\* which material image went into it (its drawing is createTextureCanvas above).
colorMap(img, matImg) ==
  [stencil |-> IF StencilUsable(img) THEN img.kind ELSE "none", material |-> matImg]

\* createRoughnessMap from its await on: pattern roughness, noise, texture.
\* The call returns the four maps.
RoughnessFinishes(st, img, random) ==
  LET st1 == Happens([st EXCEPT !.stencils["roughness"] = img], RasterEvent("roughness"))
  IN [st1 EXCEPT
        !.maps.roughnessMap =
          [i \in PixelIndexes |->
             addNoiseToDisplacement(roughnessPixel(img), random[i], Q(1, 10))],
        !.pc = "done"]

\* createDisplacementMap from its await on (pattern depth, noise), then
\* createNormalMap, then createRoughnessMap up to its await.
DisplacementFinishes(st, img, random, random2) ==
  LET displacement ==
        [i \in PixelIndexes |->
           addNoiseToDisplacement(displacementPixel(img), random[i], Q(5, 100))]
      st1 == Happens([st EXCEPT !.stencils["displacement"] = img],
                     RasterEvent("displacement"))
      st2 == Happens([st1 EXCEPT
                        !.maps.displacementMap = displacement,
                        !.maps.normalMap =
                          [i \in PixelIndexes |->
                             normalAt(displacement, i % GridWidth, i \div GridWidth)]],
                     RasterEvent("normal"))
      st3 == Happens(st2, RasterEvent("roughness"))
  IN IF jobConfig.pattern = "url"
       THEN [Happens(st3, AwaitEvent("roughness", "stencil")) EXCEPT !.pc = "roughnessStencil"]
       ELSE RoughnessFinishes(st3, PatternNull, random2)

\* The color map is done: createDisplacementMap starts with its white fill
\* and goes up to its await.
ColorFinishes(st, matImg, random, random2) ==
  LET st1 == Happens([st EXCEPT !.maps.map = colorMap(st.stencils["color"], matImg)],
                     RasterEvent("color"))
      st2 == Happens(st1, RasterEvent("displacement"))
  IN IF jobConfig.pattern = "url"
       THEN [Happens(st2, AwaitEvent("displacement", "stencil")) EXCEPT !.pc = "displacementStencil"]
       ELSE DisplacementFinishes(st2, PatternNull, random, random2)

\* createTextureCanvas after its stencil load: the whole no-material path, or
\* the background fill and the await of the material image.
ColorContinues(st, img, random, random2) ==
  LET st1 == [st EXCEPT !.stencils["color"] = img]
  IN IF ~jobConfig.material
       THEN ColorFinishes(st1, "none", random, random2)
       ELSE [Happens(Happens(st1, RasterEvent("color")), AwaitEvent("color", "material"))
               EXCEPT !.pc = "colorMaterial"]

\* createTextureFromConfig is called: createTextureCanvas up to its first await.
JobBegins(random, random2) ==
  IF jobConfig.pattern = "none" THEN NewJob("rejected")
  ELSE IF jobConfig.pattern = "url"
    THEN Happens(NewJob("colorStencil"), AwaitEvent("color", "stencil"))
  ELSE ColorContinues(NewJob("start"), PatternNull, random, random2)

JobIdle ==
  /\ jobConfig = [pattern |-> "none", material |-> FALSE]
  /\ jobAnswers = [stencil |-> [b \in Builders |-> PatternNull], material |-> "material"]
  /\ jobRun = 2
  /\ jobCall = NewJob("idle")
  /\ jobOutputs = <<NoMaps, NoMaps>>

InitJob ==
  /\ jobConfig \in JobConfigs
  /\ jobAnswers \in [stencil : [Builders -> LoaderResults], material : MaterialResults]
  /\ jobRun = 0
  /\ jobCall = NewJob("idle")
  /\ jobOutputs = <<NoMaps, NoMaps>>

\* A step of the call leaves it at st; a call that is done has returned its maps.
JobMoves(st) ==
  /\ jobCall' = st
  /\ jobOutputs' = IF st.pc = "done" THEN [jobOutputs EXCEPT ![jobRun'] = st.maps]
                   ELSE jobOutputs
  /\ UNCHANGED <<jobConfig, jobAnswers>>

\* createTextureFromConfig(config, 2048, 2048) is called (no call is running).
CallCreateTextureFromConfig ==
  /\ jobCall.pc \in {"idle", "done", "rejected"}
  /\ jobRun < 2
  /\ jobRun' = jobRun + 1
  /\ \E random, random2 \in RandomStreams : JobMoves(JobBegins(random, random2))
  /\ UNCHANGED jobRest

\* The color builder's loadPatternSVG settles.
ColorStencilSettles ==
  /\ jobCall.pc = "colorStencil"
  /\ jobRun' = jobRun
  /\ \E random, random2 \in RandomStreams :
       JobMoves(ColorContinues(jobCall, jobAnswers.stencil["color"], random, random2))
  /\ UNCHANGED jobRest

\* loadImage(material.imageUrl) settles; applyAdjustments and the rest of the
\* color builder follow.
JobMaterialSettles ==
  /\ jobCall.pc = "colorMaterial"
  /\ jobRun' = jobRun
  /\ IF jobAnswers.material = "rejected"
       THEN JobMoves([jobCall EXCEPT !.pc = "rejected"])
       ELSE \E random, random2 \in RandomStreams :
              JobMoves(ColorFinishes(jobCall, jobAnswers.material, random, random2))
  /\ UNCHANGED jobRest

\* The displacement builder's loadPatternSVG settles.
DisplacementStencilSettles ==
  /\ jobCall.pc = "displacementStencil"
  /\ jobRun' = jobRun
  /\ \E random, random2 \in RandomStreams :
       JobMoves(DisplacementFinishes(jobCall, jobAnswers.stencil["displacement"],
                                     random, random2))
  /\ UNCHANGED jobRest

\* The roughness builder's loadPatternSVG settles.
RoughnessStencilSettles ==
  /\ jobCall.pc = "roughnessStencil"
  /\ jobRun' = jobRun
  /\ \E random \in RandomStreams :
       JobMoves(RoughnessFinishes(jobCall, jobAnswers.stencil["roughness"], random))
  /\ UNCHANGED jobRest

NextJob ==
  \/ CallCreateTextureFromConfig
  \/ ColorStencilSettles
  \/ JobMaterialSettles
  \/ DisplacementStencilSettles
  \/ RoughnessStencilSettles

(***************************************************************************)
(*            THE STENCIL TILE LOOP AND A DRAW THAT THROWS                 *)
(* drawImage throws (InvalidStateError) for an image in the broken state;  *)
(* which draws throw is up to the browser and is chosen with the call.     *)
(***************************************************************************)
TileBuilders == {"generateTexture", "createTextureCanvas", "createDisplacementMap"}

\* generateTexture wraps the draw of a tile in try/catch ("Continue with other
\* tiles even if one fails"); the loops of textureRenderer.ts have none.
CatchesTileFailure(builder) == builder = "generateTexture"

\* for (row ...) for (col ...) { [try] drawImage(...) [catch] }, from tile i
\* on: an exception nobody catches ends the loop.
RECURSIVE tileLoop(_, _, _, _, _)
tileLoop(i, n, throws, catches, st) ==
  IF i > n \/ st.thrown THEN st
  ELSE tileLoop(i + 1, n, throws, catches,
                IF i \in throws
                  THEN IF catches THEN st ELSE [st EXCEPT !.thrown = TRUE]
                  ELSE [st EXCEPT !.drawn = @ \cup {i}])

TilesIdle ==
  /\ tileBuilder = "generateTexture"
  /\ tileGrid = [rows |-> 1, columns |-> 1]
  /\ tileThrows = {}
  /\ tilePc = "idle"
  /\ tileDrawn = {}
  /\ tileLater = FALSE

InitTiles ==
  /\ tileBuilder \in TileBuilders
  /\ tileGrid \in [rows : 1..MaxRows, columns : 1..MaxColumns]
  /\ tileThrows \in {{}} \cup {{k} : k \in 1..(tileGrid.rows * tileGrid.columns)}
                         \cup {{1, tileGrid.rows * tileGrid.columns}}
  /\ tilePc = "start"
  /\ tileDrawn = {}
  /\ tileLater = FALSE

\* The builder from its tile loop on, with a usable stencil: the loop, then
\* the steps after it, then the return.  An exception leaving the loop
\* rejects the builder's promise and skips the rest.
RunTileLoop ==
  /\ tilePc = "start"
  /\ LET st == tileLoop(1, tileGrid.rows * tileGrid.columns, tileThrows,
                        CatchesTileFailure(tileBuilder),
                        [drawn |-> {}, thrown |-> FALSE])
     IN /\ tileDrawn' = st.drawn
        /\ tileLater' = ~st.thrown
        /\ tilePc' = IF st.thrown THEN "rejected" ELSE "returned"
  /\ UNCHANGED <<tileBuilder, tileGrid, tileThrows>>
  /\ UNCHANGED tilesRest

NextTiles == RunTileLoop

(***************************************************************************)
(*        CONFIGURATION OBJECTS: app/page.tsx and ControlPanel.tsx         *)
(* A TextureConfig is an object holding references to its four settings    *)
(* objects, to a Pattern and to a Material.  `heap` maps a reference to    *)
(* the object's fields; a spread `{ ...o, f: v }` appends a new object.    *)
(***************************************************************************)
MaxEdits == 2
MaxCalls == 1

\* null
Null == 0

\* The objects that exist when Home first renders: two entries of `patterns`
\* (one with defaultRows), one of `materials`, and defaultConfig with its
\* four settings objects.
InitialHeap ==
  << [id |-> "herringbone", defaultRows |-> Undefined],
     [id |-> "basket", defaultRows |-> [defined |-> TRUE, value |-> 2]],
     [id |-> "brick"],
     [rows |-> 6, columns |-> 4],
     [tint |-> "#FFFFFF"],
     [horizontal |-> 5],
     [contrast |-> 1, invert |-> FALSE],
     [pattern |-> 1, material |-> Null, patternSettings |-> 4,
      materialSettings |-> 5, jointSettings |-> 6, adjustments |-> 7] >>

PatternRefs == {1, 2}
MaterialRefs == {3}
SettingsGroups == {"patternSettings", "materialSettings", "jointSettings", "adjustments"}

\* An update that writes into the settings object the configuration holds
\* before copying it.
updateSettingsInPlace(h, cfg, group, field, value) ==
  LET written == [h EXCEPT ![h[cfg][group]][field] = value]
      h1 == Append(written, written[written[cfg][group]])
  IN Append(h1, [written[cfg] EXCEPT ![group] = Len(h1)])

\* onConfigChange({ ...config, [group]: { ...config[group], ...updates } }):
\* two new objects, the settings object and the configuration.
updateSettings(h, cfg, group, field, value) ==
  LET h1 == Append(h, [h[h[cfg][group]] EXCEPT ![field] = value])
  IN Append(h1, [h[cfg] EXCEPT ![group] = Len(h1)])

\* What a pipeline function can read through its config argument.
DeepValue(h, cfg) ==
  [pattern |-> IF h[cfg].pattern = Null THEN Null ELSE h[h[cfg].pattern],
   material |-> IF h[cfg].material = Null THEN Null ELSE h[h[cfg].material],
   patternSettings |-> h[h[cfg].patternSettings],
   materialSettings |-> h[h[cfg].materialSettings],
   jointSettings |-> h[h[cfg].jointSettings],
   adjustments |-> h[h[cfg].adjustments]]

PipelineFunctions == {"createTextureCanvas", "createTextureFromConfig", "generateTexture"}

StoreIdle ==
  /\ heap = InitialHeap
  /\ current = Len(InitialHeap)
  /\ edits = MaxEdits
  /\ calls = {}

InitStore ==
  /\ heap = InitialHeap
  /\ current = Len(InitialHeap)
  /\ edits = 0
  /\ calls = {}

\* setConfig(next): Home's state now holds the object created last.
SetConfig(h) ==
  /\ edits < MaxEdits
  /\ heap' = h
  /\ current' = Len(h)
  /\ edits' = edits + 1
  /\ UNCHANGED calls

\* ControlPanel: updatePatternSettings({ rows }) / ({ columns })
updatePatternSettings ==
  /\ \E field \in {"rows", "columns"}, value \in {1, 2} :
       SetConfig(updateSettings(heap, current, "patternSettings", field, value))
  /\ UNCHANGED storeRest

\* ControlPanel: updateMaterialSettings({ tint })
updateMaterialSettings ==
  /\ SetConfig(updateSettings(heap, current, "materialSettings", "tint", "#C8A27A"))
  /\ UNCHANGED storeRest

\* ControlPanel: updateJointSettings({ horizontal })
updateJointSettings ==
  /\ SetConfig(updateSettings(heap, current, "jointSettings", "horizontal", 0))
  /\ UNCHANGED storeRest

\* ControlPanel: updateAdjustments({ invert })
updateAdjustments ==
  /\ SetConfig(updateSettings(heap, current, "adjustments", "invert",
                              ~heap[heap[current].adjustments].invert))
  /\ UNCHANGED storeRest

\* Home: handlePatternSelect(pattern) copies the pattern, the pattern
\* settings and the configuration.
PatternSelected ==
  /\ \E selected \in PatternRefs :
       LET h1 == Append(heap, heap[selected])
           h2 == Append(h1, [heap[heap[current].patternSettings] EXCEPT
                               !.rows = DefaultOrElse(heap[selected].defaultRows, @)])
       IN SetConfig(Append(h2, [heap[current] EXCEPT
                                  !.pattern = Len(h1), !.patternSettings = Len(h2)]))
  /\ UNCHANGED storeRest

\* Home: handleMaterialSelect(material): a new configuration that refers to
\* the entry of `materials` itself.
handleMaterialSelect ==
  /\ \E selected \in MaterialRefs :
       SetConfig(Append(heap, [heap[current] EXCEPT !.material = selected]))
  /\ UNCHANGED storeRest

\* A pipeline function is called with the current configuration.  It
\* destructures its argument and from then on only reads through it.
CallPipeline ==
  /\ Cardinality(calls) < MaxCalls
  /\ \E fn \in PipelineFunctions :
       calls' = calls \cup {[fn |-> fn, config |-> current,
                             seen |-> DeepValue(heap, current)]}
  /\ UNCHANGED <<heap, current, edits>>
  /\ UNCHANGED storeRest

\* The call's promise settles.
PipelineSettles ==
  /\ \E call \in calls : calls' = calls \ {call}
  /\ UNCHANGED <<heap, current, edits>>
  /\ UNCHANGED storeRest

NextStore ==
  \/ updatePatternSettings
  \/ updateMaterialSettings
  \/ updateJointSettings
  \/ updateAdjustments
  \/ PatternSelected
  \/ handleMaterialSelect
  \/ CallPipeline
  \/ PipelineSettles

(***************************************************************************)
(*          DISPLACEMENT BUILDER: createDisplacementMap, the raster        *)
(* The canvas is scaled down: a tile is StencilWidth pixels wide and one   *)
(* pixel high, the canvas is columns tiles wide and rows tiles high.       *)
(***************************************************************************)
\* Stencil pixels: a black stroke, a gray stroke, a nearly white stroke, and
\* nothing (transparent).
DisplacementStencilPixels ==
  { [gray |-> 0, alpha |-> 255], [gray |-> 128, alpha |-> 255],
    [gray |-> 245, alpha |-> 255], [gray |-> 0, alpha |-> 0] }

\* jointSettings, as far as they could reach a heightfield.
JointSettings == [horizontal : {0, 5}, vertical : {0, 5}, recess : BOOLEAN]

DisplacementConfigs ==
  [rows : 1..MaxRows, columns : 1..MaxColumns, jointSettings : JointSettings]

\* isWhite = (r > 240 && g > 240 && b > 240) || alpha < 10
isWhite(px) == (px[1] > 240 /\ px[2] > 240 /\ px[3] > 240) \/ px[4] < 10

\* The loop body for one pixel: `height` is the height on the canvas, px
\* the pixel of the tile canvas (the stencil drawn over white).
depthOfPixel(px, height) ==
  IF ~isWhite(px)
    THEN LET darkness == QSub(QInt(1), luminance(px))
             depthIntensity == QMul(darkness, Q(px[4], 255))
             recessedDepth == QMul(QInt(255), QSub(QInt(1), QMul(depthIntensity, Q(3, 4))))
         IN ToUint8Clamp(QMax(QInt(0), QMin(QInt(255), recessedDepth)))
    ELSE height

\* The stencil pixel drawn at canvas pixel i (1-based, row by row).
stencilPixelAt(cfg, img, i) ==
  img[(((i - 1) % (cfg.columns * StencilWidth)) % StencilWidth) + 1]

\* A heightfield into which the horizontal joint bands are pressed as well:
\* the first row of every tile row but the first is lowered.
displacementFieldWithJoints(cfg, img, loaded) ==
  [i \in 1..(cfg.columns * StencilWidth * cfg.rows) |->
     IF cfg.jointSettings.horizontal > 0 /\ (i - 1) \div (cfg.columns * StencilWidth) > 0
       THEN 128
     ELSE IF loaded THEN depthOfPixel(drawOverWhite(stencilPixelAt(cfg, img, i)), 255)
     ELSE 255]

\* createDisplacementMap up to the noise: the white fill, then for every
\* tile the stencil drawn over white and turned into depth.
displacementField(cfg, img, loaded) ==
  [i \in 1..(cfg.columns * StencilWidth * cfg.rows) |->
     IF loaded THEN depthOfPixel(drawOverWhite(stencilPixelAt(cfg, img, i)), 255)
     ELSE 255]

HeightIdle ==
  /\ dispConfig = [rows |-> 1, columns |-> 1,
                   jointSettings |-> [horizontal |-> 5, vertical |-> 5, recess |-> TRUE]]
  /\ dispStencil = [p \in 1..StencilWidth |-> [gray |-> 0, alpha |-> 0]]
  /\ dispLoaded = FALSE
  /\ dispField = <<>>
  /\ dispPc = "idle"

InitHeight ==
  /\ dispConfig \in DisplacementConfigs
  /\ dispStencil \in [1..StencilWidth -> DisplacementStencilPixels]
  /\ dispLoaded \in BOOLEAN
  /\ dispField = <<>>
  /\ dispPc = "start"

\* createDisplacementMap once its loadPatternSVG has settled, up to its call
\* of addNoiseToDisplacement.
CreateDisplacementField ==
  /\ dispPc = "start"
  /\ dispField' = displacementField(dispConfig, dispStencil, dispLoaded)
  /\ dispPc' = "done"
  /\ UNCHANGED <<dispConfig, dispStencil, dispLoaded>>
  /\ UNCHANGED heightRest

NextHeight == CreateDisplacementField

(***************************************************************************)
(*   TILE REGIONS: the getImageData / putImageData rectangles of the       *)
(*   displacement and roughness builders                                   *)
(***************************************************************************)
\* The largest count the Rows and Columns inputs offer (max="20").
MaxCount == 20

\* The conversion of a number to a WebIDL long or unsigned long (the width of
\* a canvas, the arguments of getImageData and putImageData): the fraction is
\* dropped.
ToLong(a) == QTrunc(a)

\* The pixels along one axis that the loop processes for tile `index` of
\* `count`: getImageData(x, ..., patternUnitWidth, ...) and
\* putImageData(data, x, ...) with x = index * patternUnitWidth, on an axis of
\* `size` pixels; the tile canvas is ToLong(patternUnitWidth) wide.
tileRegion(index, count, size) ==
  LET unit == QDiv(QInt(size), QInt(count))
      from == ToLong(tileOrigin(index, unit))
  IN {p \in from..(from + ToLong(unit) - 1) : p < size}

RegionsIdle ==
  /\ regionGrid = [rows |-> 1, columns |-> 1]
  /\ regionPc = "idle"
  /\ regionColumns = <<>>
  /\ regionRows = <<>>

InitRegions ==
  /\ regionGrid \in [rows : 1..MaxCount, columns : 1..MaxCount]
  /\ regionPc = "start"
  /\ regionColumns = <<>>
  /\ regionRows = <<>>

\* The tile loop of createDisplacementMap (and of createRoughnessMap) on the
\* 2048 x 2048 canvas.
ProcessTiles ==
  /\ regionPc = "start"
  /\ regionColumns' = [col \in 1..regionGrid.columns |->
                         tileRegion(col - 1, regionGrid.columns, outputWidth)]
  /\ regionRows' = [row \in 1..regionGrid.rows |->
                      tileRegion(row - 1, regionGrid.rows, outputHeight)]
  /\ regionPc' = "done"
  /\ UNCHANGED regionGrid
  /\ UNCHANGED regionsRest

NextRegions == ProcessTiles

(***************************************************************************)
(*                             Specifications                              *)
(***************************************************************************)
ViewerIdle ==
  /\ mounted = FALSE
  /\ meshRef = FALSE
  /\ effectRuns = MaxEffectRuns
  /\ jobs = [j \in JobIds |-> NoJob]
  /\ material = [k \in MapKinds |-> 0]
  /\ textures = [t \in JobIds \X MapKinds |-> "none"]

\* The 3D viewer.
Init == InitViewer /\ AdjustIdle /\ RenderIdle /\ NormalIdle /\ MaskIdle /\ PreviewIdle /\ EditorIdle /\ JobIdle /\ TilesIdle /\ StoreIdle /\ HeightIdle /\ RegionsIdle

Next == NextViewer

Spec == Init /\ [][Next]_vars

\* The viewer with its promise reactions scheduled: once
\* createTextureFromConfig has resolved, the .then callback is a microtask
\* that the event loop runs.
SpecLive == Spec /\ \A j \in JobIds : WF_vars(ThenCallback(j))

\* The Adjustment Filter applied to one pixel.
InitAdjustOnly == InitAdjust /\ ViewerIdle /\ RenderIdle /\ NormalIdle /\ MaskIdle /\ PreviewIdle /\ EditorIdle /\ JobIdle /\ TilesIdle /\ StoreIdle /\ HeightIdle /\ RegionsIdle

SpecAdjust == InitAdjustOnly /\ [][NextAdjust]_vars

\* The Adjustment Filter over the contrast domain.
InitAdjustContrastOnly == InitAdjustContrast /\ ViewerIdle /\ RenderIdle /\ NormalIdle /\ MaskIdle /\ PreviewIdle /\ EditorIdle /\ JobIdle /\ TilesIdle /\ StoreIdle /\ HeightIdle /\ RegionsIdle

SpecAdjustContrast == InitAdjustContrastOnly /\ [][NextAdjust]_vars

\* The Adjustment Filter under hue rotations.
InitAdjustHueOnly == InitAdjustHue /\ ViewerIdle /\ RenderIdle /\ NormalIdle /\ MaskIdle /\ PreviewIdle /\ EditorIdle /\ JobIdle /\ TilesIdle /\ StoreIdle /\ HeightIdle /\ RegionsIdle

SpecAdjustHue == InitAdjustHueOnly /\ [][NextAdjust]_vars

\* One call of createTextureCanvas.
InitRenderOnly == InitRender /\ ViewerIdle /\ AdjustIdle /\ NormalIdle /\ MaskIdle /\ PreviewIdle /\ EditorIdle /\ JobIdle /\ TilesIdle /\ StoreIdle /\ HeightIdle /\ RegionsIdle

SpecRender == InitRenderOnly /\ [][NextRender]_vars

\* One call of createTextureCanvas with a configuration nobody validated.
InitRenderUnvalidatedOnly == InitRenderUnvalidated /\ ViewerIdle /\ AdjustIdle /\ NormalIdle /\ MaskIdle /\ PreviewIdle /\ EditorIdle /\ JobIdle /\ TilesIdle /\ StoreIdle /\ HeightIdle /\ RegionsIdle

SpecRenderUnvalidated == InitRenderUnvalidatedOnly /\ [][NextRender]_vars

\* One call of createNormalMap.
InitNormalOnly == InitNormal /\ ViewerIdle /\ AdjustIdle /\ RenderIdle /\ MaskIdle /\ PreviewIdle /\ EditorIdle /\ JobIdle /\ TilesIdle /\ StoreIdle /\ HeightIdle /\ RegionsIdle

SpecNormal == InitNormalOnly /\ [][NextNormal]_vars

\* One pass of the pattern mask.
InitMaskOnly == InitMask /\ ViewerIdle /\ AdjustIdle /\ RenderIdle /\ NormalIdle /\ PreviewIdle /\ EditorIdle /\ JobIdle /\ TilesIdle /\ StoreIdle /\ HeightIdle /\ RegionsIdle

SpecMask == InitMaskOnly /\ [][NextMask]_vars

\* The 2D preview.
InitPreviewOnly == InitPreview /\ ViewerIdle /\ AdjustIdle /\ RenderIdle /\ NormalIdle /\ MaskIdle /\ EditorIdle /\ JobIdle /\ TilesIdle /\ StoreIdle /\ HeightIdle /\ RegionsIdle

SpecPreview == InitPreviewOnly /\ [][NextPreview]_vars

\* The configuration editor.
InitEditorOnly == InitEditor /\ ViewerIdle /\ AdjustIdle /\ RenderIdle /\ NormalIdle /\ MaskIdle /\ PreviewIdle /\ JobIdle /\ TilesIdle /\ StoreIdle /\ HeightIdle /\ RegionsIdle

SpecEditor == InitEditorOnly /\ [][NextEditor]_vars

\* Two calls of createTextureFromConfig, one after the other, with the same
\* configuration and the same answers from the asset retrievals.
InitJobOnly == InitJob /\ ViewerIdle /\ AdjustIdle /\ RenderIdle /\ NormalIdle /\ MaskIdle /\ PreviewIdle /\ EditorIdle /\ TilesIdle /\ StoreIdle /\ HeightIdle /\ RegionsIdle

SpecJob == InitJobOnly /\ [][NextJob]_vars

\* The tile loop of one builder, with draws that may throw.
InitTilesOnly == InitTiles /\ ViewerIdle /\ AdjustIdle /\ RenderIdle /\ NormalIdle /\ MaskIdle /\ PreviewIdle /\ EditorIdle /\ JobIdle /\ StoreIdle /\ HeightIdle /\ RegionsIdle

SpecTiles == InitTilesOnly /\ [][NextTiles]_vars

\* The configuration objects under edits, with pipeline calls in flight.
InitStoreOnly == InitStore /\ ViewerIdle /\ AdjustIdle /\ RenderIdle /\ NormalIdle /\ MaskIdle /\ PreviewIdle /\ EditorIdle /\ JobIdle /\ TilesIdle /\ HeightIdle /\ RegionsIdle

SpecStore == InitStoreOnly /\ [][NextStore]_vars

\* One call of createDisplacementMap, up to its noise.
InitHeightOnly == InitHeight /\ ViewerIdle /\ AdjustIdle /\ RenderIdle /\ NormalIdle /\ MaskIdle /\ PreviewIdle /\ EditorIdle /\ JobIdle /\ TilesIdle /\ StoreIdle /\ RegionsIdle

SpecHeight == InitHeightOnly /\ [][NextHeight]_vars

\* The tile loop's pixel regions for every grid the inputs offer.
InitRegionsOnly == InitRegions /\ ViewerIdle /\ AdjustIdle /\ RenderIdle /\ NormalIdle /\ MaskIdle /\ PreviewIdle /\ EditorIdle /\ JobIdle /\ TilesIdle /\ StoreIdle /\ HeightIdle

SpecRegions == InitRegionsOnly /\ [][NextRegions]_vars







(***************************************************************************)
(* C3: Adjustment Filter identity: with brightness = 1, contrast = 1,      *)
(* hue = 0, saturation = 1, invert = false, applyAdjustments returns every *)
(* pixel unchanged.                                                        *)
(***************************************************************************)
C3_IdentityUnchanged ==
  (adjustments = IdentityAdjustments /\ passes >= 1) => imgPixel = srcPixel

(***************************************************************************)
(* C4: invert is self-inverse: two applyAdjustments passes with            *)
(* invert = true and every other parameter at identity return the original *)
(* pixel.                                                                  *)
(***************************************************************************)
C4_InvertTwiceIsIdentity ==
  (adjustments = [IdentityAdjustments EXCEPT !.invert = TRUE] /\ passes = 2)
    => imgPixel = srcPixel

(***************************************************************************)
(* C1: in the 3D viewer the result of a createTextureFromConfig job is     *)
(* assigned to the mesh material only if no newer run of the texture       *)
(* effect and no unmount happened since the job started: whenever a job    *)
(* becomes applied, it is the job of the latest effect run, the component  *)
(* is mounted and the job is not cancelled.                                *)
(***************************************************************************)
C1_OnlyNewestApplied ==
  [][\A j \in JobIds :
       (jobs[j].stage # "applied" /\ jobs'[j].stage = "applied")
         => (j = effectRuns /\ mounted /\ ~jobs[j].cancelled)]_vars

\* A job superseded in flight has completed and been discarded, and the newest
\* job has been applied.
C1_Witness ==
  \E j, k \in JobIds :
    /\ j < k
    /\ jobs[j].stage = "discarded"
    /\ jobs[k].stage = "applied"
    /\ material["map"] = k

(***************************************************************************)
(* C5: The stencil loader never fails: whatever the outcome of the         *)
(* retrieval, the builder goes on with a usable stencil (complete, of      *)
(* non-zero size), and whenever the retrieval failed that stencil is the   *)
(* fallback, one fully opaque solid square.                                *)
(***************************************************************************)
C5_StencilNeverFails ==
  (retrieval # "none" /\ renderPc \in {"material", "materialFallback", "adjust", "done"})
    => /\ StencilUsable(patternImg)
       /\ retrieval # "ok" => (patternImg.kind = "fallbackPattern" /\ patternImg.opaque)

(***************************************************************************)
(* C6: With rows = R, columns = C and a loaded stencil, the color map      *)
(* builder draws exactly R*C stencil instances: one for each (row, col),   *)
(* 0 <= row < R, 0 <= col < C, of size (outputWidth/C, outputHeight/R) at  *)
(* origin (col*outputWidth/C, row*outputHeight/R).                         *)
(***************************************************************************)
StencilDraws == {i \in DOMAIN textureCanvas.ops : textureCanvas.ops[i].site = "stencil"}

C6_ExactlyRowsTimesColumnsTiles ==
  (renderPc = "done" /\ StencilUsable(patternImg)) =>
    /\ Cardinality(StencilDraws) = config.rows * config.columns
    /\ \A row \in 0..(config.rows - 1), col \in 0..(config.columns - 1) :
         \E i \in StencilDraws :
           /\ textureCanvas.ops[i].op = "drawImage"
           /\ textureCanvas.ops[i].x = Q(col * outputWidth, config.columns)
           /\ textureCanvas.ops[i].y = Q(row * outputHeight, config.rows)
           /\ textureCanvas.ops[i].w = Q(outputWidth, config.columns)
           /\ textureCanvas.ops[i].h = Q(outputHeight, config.rows)

C6_Witness ==
  /\ renderPc = "done"
  /\ StencilUsable(patternImg)
  /\ config.material
  /\ config.rows = 3
  /\ config.columns = 2
  /\ Cardinality(StencilDraws) = 6

(***************************************************************************)
(* C8: A joint whose pixel thickness, (joint mm / tile mm) * unit pixels,  *)
(* is below one pixel draws no band: the finished color map holds no       *)
(* horizontal band thinner than a pixel and no vertical band narrower      *)
(* than a pixel.                                                           *)
(***************************************************************************)
C8_NoSubPixelBand ==
  renderPc = "done" =>
    \A i \in DOMAIN textureCanvas.ops :
      /\ textureCanvas.ops[i].site = "jointHorizontal" => QLe(QInt(1), textureCanvas.ops[i].h)
      /\ textureCanvas.ops[i].site = "jointVertical" => QLe(QInt(1), textureCanvas.ops[i].w)

(***************************************************************************)
(* C10: A call with the pattern absent or the material absent never        *)
(* rejects because of the absence, and when it completes the canvas holds  *)
(* the placeholder rendering.                                              *)
(***************************************************************************)
C10_AbsentDegradesGracefully ==
  (config.pattern = "none" \/ ~config.material) =>
    /\ error # "Pattern is required"
    /\ renderPc = "done" =>
         \E i \in DOMAIN textureCanvas.ops :
           textureCanvas.ops[i].site = "placeholderBackground"

(***************************************************************************)
(* C9: For a perfectly flat heightfield (every pixel 255) createNormalMap  *)
(* writes (128, 128, 255, 255) at every pixel.                             *)
(***************************************************************************)
C9_FlatFieldGivesFlatUpNormal ==
  (normalPc = "done" /\ data = FlatHeightfield)
    => \A i \in PixelIndexes : normal[i] = <<128, 128, 255, 255>>

C9_Witness ==
  /\ normalPc = "done"
  /\ data = FlatHeightfield
  /\ normal # createImageData

(***************************************************************************)
(* C7: Mask safety fallback: when the tiled stencil gives a mask with no   *)
(* visible (dark) pixel, the whole mask is made visible, so the material   *)
(* covers every pixel of the color map.                                    *)
(***************************************************************************)
C7_EmptyMaskShowsAllMaterial ==
  (/\ maskPc = "done"
   /\ stencilLoaded
   /\ \A i \in MaskPixels : ~isPatternPixel(tiledMask[i]))
    => \A i \in MaskPixels : materialAlpha[i] = 255

(***************************************************************************)
(* C2: In the 2D preview an earlier generateTexture call draws nothing     *)
(* after a newer one has started: whatever the interleaving of their       *)
(* awaits, once every call has finished the canvas holds exactly the       *)
(* rendering of the newest configuration.                                  *)
(***************************************************************************)
C2_NewestConfigurationWins ==
  (/\ previewRuns >= 2
   /\ \A j \in 1..previewRuns : PreviewFinished(previewJobs[j]))
    => preview = RenderingOf(previewJobs[previewRuns])

(***************************************************************************)
(* C11: After any sequence of edits of the rows and columns inputs and of  *)
(* pattern selections, starting from the default configuration,            *)
(* patternSettings.rows and patternSettings.columns are integers >= 1.     *)
(***************************************************************************)
C11_RowsAndColumnsAtLeastOne ==
  patternSettings.rows >= 1 /\ patternSettings.columns >= 1

(***************************************************************************)
(* C12: A configuration with rows <= 0, columns <= 0 or a zero reference   *)
(* dimension (patternSettings.width or height = 0) is rejected with a      *)
(* configuration error before any raster work: the call rejects, with      *)
(* none of the builder's other errors, and nothing was drawn (so nothing   *)
(* was divided by the zero dimension in the joint or tiling loops).        *)
(***************************************************************************)
InvalidConfig(cfg) ==
  cfg.rows <= 0 \/ cfg.columns <= 0 \/ cfg.width = 0 \/ cfg.height = 0

C12_InvalidConfigRejectedEarly ==
  (InvalidConfig(config) /\ renderPc \notin {"idle", "start"})
    => /\ renderPc = "rejected"
       /\ error \notin {"", "Failed to get canvas context", "Failed to load image",
                        "Failed to create fallback canvas"}
       /\ textureCanvas.ops = <<>>

(***************************************************************************)
(* C13: On completion of a render job whose result is discarded            *)
(* (superseded by a newer configuration, or the viewer unmounted) all four *)
(* of its maps are disposed: none of them remains allocated.               *)
(***************************************************************************)
C13_DiscardedJobReleasesAllMaps ==
  \A j \in JobIds :
    jobs[j].stage = "discarded" => \A k \in MapKinds : textures[<<j, k>>] = "disposed"

C13_Witness ==
  \E j \in JobIds :
    /\ j < effectRuns
    /\ jobs[j].cancelled
    /\ jobs[j].stage = "discarded"
    /\ \A k \in MapKinds : textures[<<j, k>>] = "disposed"

(***************************************************************************)
(* C14: No partial output: a job one of whose stages failed has none of    *)
(* its maps assigned to the visible material, and in every reachable state *)
(* the four map slots of the material are either all empty or all four     *)
(* from one and the same job.                                              *)
(***************************************************************************)
C14_NoPartialOutput ==
  /\ \/ \A k \in MapKinds : material[k] = 0
     \/ \E j \in JobIds : \A k \in MapKinds : material[k] = j
  /\ \A j \in JobIds :
       jobs[j].stage = "rejected" => \A k \in MapKinds : material[k] # j

C14_Witness ==
  \E i, j \in JobIds :
    /\ jobs[i].stage = "rejected"
    /\ textures[<<i, "map">>] = "live"
    /\ textures[<<i, "roughnessMap">>] = "none"
    /\ jobs[j].stage = "applied"
    /\ \A k \in MapKinds : material[k] = j

(***************************************************************************)
(* C15: For a configuration with both pattern and material the compositor  *)
(* runs its layering steps in the order (1) background fill, (2) material  *)
(* draw, (3) tint, (4) mask build, (5) mask application, (6) joint bands:  *)
(* in a finished single call no drawing call of a step comes before one of *)
(* an earlier-numbered step.                                               *)
(***************************************************************************)
StepOf(site) ==
  CASE site \in {"clear", "background"}              -> 1
    [] site = "material"                             -> 2
    [] site = "tint"                                 -> 3
    [] site \in {"maskFill", "maskTile"}             -> 4
    [] site \in {"mask", "stencil"}                  -> 5
    [] site \in {"jointHorizontal", "jointVertical"} -> 6

C15_StepsInOrder ==
  (previewRuns = 1 /\ previewJobs[1].pc = "done")
    => \A i, j \in DOMAIN preview.ops :
         i < j => StepOf(preview.ops[i].site) <= StepOf(preview.ops[j].site)

(***************************************************************************)
(* C16: In the color map the stencil acts on the material through its      *)
(* alpha only: with a material and a loaded stencil, the finished canvas   *)
(* has had a mask applied to the material ('destination-in'), and no       *)
(* drawing of the stencil reaches the canvas under a mode that blends the  *)
(* stencil's own color into the material.                                  *)
(***************************************************************************)
C16_MaskAlphaGatesMaterial ==
  (renderPc = "done" /\ config.material /\ StencilUsable(patternImg)) =>
    /\ \E i \in DOMAIN textureCanvas.ops :
         textureCanvas.ops[i].globalCompositeOperation = "destination-in"
    /\ \A i \in DOMAIN textureCanvas.ops :
         textureCanvas.ops[i].site = "stencil"
           => textureCanvas.ops[i].globalCompositeOperation = "destination-in"

(***************************************************************************)
(* C17: In a render job every asset retrieval is awaited before any raster *)
(* stage begins: in the order of the job's events, no raster operation of  *)
(* any builder comes before an await of the stencil or of the material.    *)
(***************************************************************************)
C17_AwaitsBeforeRaster ==
  \A i, j \in DOMAIN jobCall.events :
    i < j => ~(jobCall.events[i].kind = "raster" /\ jobCall.events[j].kind = "await")

(***************************************************************************)
(* C18: Within one job the color, displacement and roughness builders work *)
(* with the same resolved stencil: when the job is done, no two builders   *)
(* of it were handed different results by the stencil loader.              *)
(***************************************************************************)
C18_SameStencilForAllMaps ==
  jobCall.pc = "done" =>
    \A b1, b2 \in Builders : jobCall.stencils[b1] = jobCall.stencils[b2]

(***************************************************************************)
(* C19: Two calls of createTextureFromConfig with the same configuration   *)
(* and the same resolved stencil and material give the same four maps,     *)
(* pixel for pixel.                                                        *)
(***************************************************************************)
C19_SameInputsSameMaps ==
  (jobRun = 2 /\ jobCall.pc = "done") => jobOutputs[1] = jobOutputs[2]

(***************************************************************************)
(* C20: For every contrast value of the nominal domain [0, 2] the filter   *)
(* evaluates its contrast factor with a non-zero denominator: whenever the *)
(* filter has run, the factor it used is a finite number.                  *)
(***************************************************************************)
C20_ContrastDenominatorNonZero ==
  passes > 0 => contrastFactor(adjustments.contrast)[2] # 0
(***************************************************************************)
(* C21: A stencil draw that throws for one tile does not abort the canvas: *)
(* once the builder has ended, it has returned, every tile whose draw did  *)
(* not throw is drawn, and the steps after the loop have run.              *)
(***************************************************************************)
C21_BadTileDoesNotAbort ==
  (tilePc \in {"returned", "rejected"} /\ tileThrows # {}) =>
    /\ tilePc = "returned"
    /\ tileDrawn = (1..(tileGrid.rows * tileGrid.columns)) \ tileThrows
    /\ tileLater
(***************************************************************************)
(* C22: A configuration is never written once it exists: every update and  *)
(* every selection creates new objects, and neither they nor a pipeline    *)
(* call change a field of an object that already exists.                   *)
(***************************************************************************)
C22_ConfigNeverMutated ==
  [][\A o \in 1..Len(heap) : heap'[o] = heap[o]]_vars

\* A pipeline call is in flight on a configuration the user has edited away
\* from, and still reads what it was called with.
C22_Witness ==
  \E call \in calls :
    /\ call.config # current
    /\ DeepValue(heap, call.config) = call.seen
    /\ DeepValue(heap, current) # call.seen
ClampChannels(rgb) == [i \in 1..3 |-> QMax(QInt(0), QMin(QInt(255), rgb[i]))]

ClampedSteps(pixel, adj) ==
  LET co == ClampChannels(contrastStep(pixel, adj))
      hsv == rgbToHsv(co[1], co[2], co[3])
      hu == IF adj.hue # 0
              THEN ClampChannels(hsvToRgb(rotatedHue(co, adj), hsv[2], hsv[3]))
              ELSE co
      gray == QAdd(QAdd(QMul(Q(299, 1000), hu[1]), QMul(Q(587, 1000), hu[2])),
                   QMul(Q(114, 1000), hu[3]))
      sa == ClampChannels([i \in 1..3 |-> QAdd(gray, QMul(QSub(hu[i], gray), adj.saturation))])
      iv == ClampChannels([i \in 1..3 |-> IF adj.invert THEN QSub(QInt(255), sa[i]) ELSE sa[i]])
  IN [i \in 1..3 |-> ToUint8Clamp(iv[i])]

(***************************************************************************)
(* C24: applyAdjustments returns, for every pixel and setting, the pixel   *)
(* of the filter that applies brightness, contrast, hue, saturation and    *)
(* invert in this order and clamps every channel to [0,255] after each     *)
(* step.                                                                   *)
(***************************************************************************)
C24_SameAsClampedSteps ==
  passes = 1 => imgPixel = ClampedSteps(srcPixel, adjustments)

(***************************************************************************)
(* C25: When hue is not 0, the rotated hue handed to hsvToRgb lies in      *)
(* [0,1) and the R, G, B that hsvToRgb returns lie in [0,255], for every   *)
(* pixel the filter was applied to.                                        *)
(***************************************************************************)
C25_RotatedHueInRange ==
  (passes >= 1 /\ adjustments.hue # 0) =>
    LET co == contrastStep(srcPixel, adjustments)
        hsv == rgbToHsv(co[1], co[2], co[3])
        h == rotatedHue(co, adjustments)
        rgb == hsvToRgb(h, hsv[2], hsv[3])
    IN /\ QLe(QInt(0), h) /\ QLt(h, QInt(1))
       /\ \A i \in 1..3 : QLe(QInt(0), rgb[i]) /\ QLe(rgb[i], QInt(255))
(***************************************************************************)
(* C26: The mesh material never references a disposed texture: each of     *)
(* the slots map, displacementMap, normalMap and roughnessMap is empty or  *)
(* holds a texture on which dispose has not been called.                   *)
(***************************************************************************)
C26_NoDisposedTextureInSlot ==
  \A k \in MapKinds :
    material[k] # 0 => textures[<<material[k], k>>] # "disposed"
(***************************************************************************)
(* C27: When the job of the last effect run resolves and no further change *)
(* or unmount comes, the material's four maps eventually are that job's    *)
(* maps, and they stay so until the next change or unmount.                *)
(***************************************************************************)
C27_NewestConfigurationEventuallyShown ==
  /\ \A j \in JobIds :
       (jobs[j].stage = "resolved" /\ effectRuns = j /\ mounted)
         ~> ((\A k \in MapKinds : material[k] = j) \/ effectRuns # j \/ ~mounted)
  /\ [][\A j \in JobIds :
          (jobs[j].stage = "applied" /\ effectRuns = j /\ effectRuns' = j /\ mounted')
            => \A k \in MapKinds : material'[k] = j]_vars

\* The job of a later effect run has resolved and its maps are the ones on
\* the material.
C27_Witness ==
  \E j \in JobIds :
    /\ j > 1
    /\ effectRuns = j
    /\ mounted
    /\ jobs[j].stage = "applied"
    /\ \A k \in MapKinds : material[k] = j
(***************************************************************************)
(* C28: The per-tile pixel regions partition the 2048 x 2048 raster: every *)
(* pixel column lies in the region of exactly one tile column and every    *)
(* pixel row in the region of exactly one tile row, so every pixel is      *)
(* processed by exactly one tile.                                          *)
(***************************************************************************)
C28_TileRegionsPartitionRaster ==
  regionPc = "done" =>
    /\ \A p \in 0..(outputWidth - 1) :
         Cardinality({col \in DOMAIN regionColumns : p \in regionColumns[col]}) = 1
    /\ \A p \in 0..(outputHeight - 1) :
         Cardinality({row \in DOMAIN regionRows : p \in regionRows[row]}) = 1
(***************************************************************************)
(* C29: Every compositing step of generateTexture restores the context's   *)
(* defaults before the next one: on the preview canvas the joint bands are *)
(* drawn with globalCompositeOperation = source-over, and whenever no call *)
(* is in the middle of a step the context has globalCompositeOperation =   *)
(* source-over and globalAlpha = 1.                                        *)
(***************************************************************************)
C29_CompositingDefaultsRestored ==
  /\ \A i \in DOMAIN preview.ops :
       preview.ops[i].site \in {"jointHorizontal", "jointVertical"}
         => preview.ops[i].globalCompositeOperation = "source-over"
  /\ preview.globalCompositeOperation = "source-over"
  /\ preview.globalAlpha = QInt(1)

====
